---- MODULE Spec2Model ----
(***************************************************************************)
(* Markable stream adapters of autorecurse (lib/antlr4/stream.py):         *)
(* IteratorToIntStreamAdapter and its character and token variants,        *)
(* layered on the lookahead FIFO (ArrayedFifo / FifoGlobalIndexWrapper /   *)
(* FifoManager).                                                           *)
(***************************************************************************)
EXTENDS Integers, Sequences, FiniteSets, TLC

\* ------------------------------------------------------------------ bounds
\* Longest source sequence handed to an adapter.
MaxLen == 3
\* Reference tokens the FIFO manager's allocator may hand out: 0..MaxToken.
MaxToken == 2
\* Marks a client holds at the same time.
MaxMarks == 2

\* IntStream.EOF, returned by LA past the end of the stream.
EOF == -1
\* Token.EOF, the type of the token that ends a token source.
TokenEOF == -1

\* The adapters never inspect an item (but for the type of an EOF token), so
\* the sources are the ones whose items all differ: an item read at a wrong
\* position is then always a wrong item.
Alphabet == <<"a", "b", "c", "d", "e", "f", "g", "h">>
Variants == {"char", "token"}
Tokens == 0 .. MaxToken
Offsets == {-2, -1, 1, 2, 3}
SeekArgs == -1 .. (MaxLen + 1)
TextArgs == -1 .. MaxLen
ReleaseArgs == -1 .. (MaxToken + 1)

VARIABLES
    variant,  \* which adapter class was made: "char" or "token"
    source,   \* the items the source Iterator[T] yields, in order
    stream,   \* the adapter: its FIFO layers and its source iterator's position
    held,     \* the marks the client holds: <<token, index at mark()>>, for
              \* every token mark() returned in state I and not released since
    released, \* whether the client has released a mark it held
    release_called, \* whether release() has been called, with any argument
    last      \* the call that has just returned: its name, argument, outcome and
              \* the adapter before it (pre); NoCall between calls

\* The pull iterators (autorecurse.lib.iterator and the iterators built on it).
VARIABLES
    kind,     \* which iterator class was made
    input,    \* what the iterator is made over: items, inner lists, tokens or
              \* the declarations the rule parser yields
    iter,     \* the iterator: its fields, the iterators it wraps included
    call      \* the call that has just returned: its name, whether it raised
              \* and the iterator before it (pre); NoIterCall between calls

\* The line conditions (autorecurse.gnumake.grammar.filter), two instances in
\* a row: of one class, or as Factory chains them.
VARIABLES
    cond,     \* which Condition class was made twice, or FactoryPipeline
    lines,    \* the lines of the input, in order
    fed,      \* the number of lines of the input shown to the first instance
    first,    \* the first instance: its state, its last verdict and the
              \* lines forwarded so far
    second    \* the second instance, shown the lines the first one forwards

\* The functions of a text: ParseContextTargetBuilder._trim_recipe_line and the
\* construction of a Line.
VARIABLES
    string,   \* the text handed over, a sequence of characters
    outcome   \* the call that has returned: its name, whether it raised and
              \* what it returned; NoTextCall before the call

streamVars == <<variant, source, stream, held, released, release_called, last>>
iterVars == <<kind, input, iter, call>>
filterVars == <<cond, lines, fed, first, second>>
textVars == <<string, outcome>>
vars == <<streamVars, iterVars, filterVars, textVars>>

\* The variables of a component that is not the one under study stay at rest.
StreamOff ==
    /\ variant = "none"
    /\ source = <<>>
    /\ stream = <<>>
    /\ held = {}
    /\ released = FALSE
    /\ release_called = FALSE
    /\ last = <<>>

IterOff ==
    /\ kind = "none"
    /\ input = <<>>
    /\ iter = <<>>
    /\ call = <<>>

FilterOff ==
    /\ cond = "none"
    /\ lines = <<>>
    /\ fed = 0
    /\ first = <<>>
    /\ second = <<>>

TextOff ==
    /\ string = <<>>
    /\ outcome = <<>>

SetMin(S) == CHOOSE x \in S : \A y \in S : x <= y

\* ord(item) of IteratorToCharStreamAdapter._item_to_int
Ord(c) == 96 + CHOOSE i \in 1 .. Len(Alphabet) : Alphabet[i] = c

CharSources == {SubSeq(Alphabet, 1, n) : n \in 0 .. MaxLen}

MakeToken(type) == [type |-> type, text |-> IF type = TokenEOF THEN "<EOF>" ELSE "t"]

\* A token the source would yield after its EOF token: a second EOF-typed
\* token, another object than the first.
TrailingToken == [type |-> TokenEOF, text |-> "<EOF 2>"]

\* The token sources of the adapter's specification domain: the source yields
\* an EOF token before it reaches its end, and may hold a token after it.
TokenSources ==
    LET upToEof(n) == [i \in 1 .. n + 1 |-> IF i <= n THEN MakeToken(i) ELSE MakeToken(TokenEOF)]
    IN  {upToEof(n) : n \in 0 .. (MaxLen - 1)}
            \cup {Append(upToEof(n), TrailingToken) : n \in 0 .. (MaxLen - 1)}

Sources(v) == IF v = "char" THEN CharSources ELSE TokenSources

ItemToInt(item) == IF variant = "char" THEN Ord(item) ELSE item.type

\* ------------------------------------------------------- source Iterator[T]
\* Position 0 is state S, 1..Len(source) state I on that item, Len(source)+1
\* state E.
ItIsAtStart(s) == s.it = 0

ItHasCurrentItem(s) == 1 <= s.it /\ s.it <= Len(source)

ItCurrentItem(s) == source[s.it]

ItMoveToNext(s) == [s EXCEPT !.it = @ + 1]

ItIsAtEofToken(s) == ItCurrentItem(s).type = TokenEOF

\* ------------------------------------------------------------ lookahead FIFO
\* items: the buffered items, oldest first; current_index: the read cursor,
\* 0-based within items (-1 before the first move, count at the end);
\* global_count: items ever pushed; refs: the strong references <<token,
\* global index>>.
FifoMake == [items |-> <<>>, current_index |-> -1, global_count |-> 0, refs |-> {}, it |-> 0]

FifoCount(s) == Len(s.items)

FifoIsEmpty(s) == Len(s.items) = 0

FifoHasCurrentItem(s) == 0 <= s.current_index /\ s.current_index < Len(s.items)

FifoIsAtEnd(s) == s.current_index = Len(s.items)

FifoCurrentItem(s) == s.items[s.current_index + 1]

FifoPush(s, x) == [s EXCEPT !.items = Append(@, x), !.global_count = @ + 1]

FifoMoveToNext(s) == [s EXCEPT !.current_index = @ + 1]

FifoMoveToIndex(s, i) == [s EXCEPT !.current_index = i]

CurrentGlobalIndex(s) == s.global_count - Len(s.items) + s.current_index

MoveToGlobalIndex(s, g) == [s EXCEPT !.current_index = g - (s.global_count - Len(s.items))]

ActiveTokens(s) == {r[1] : r \in s.refs}

NewStrongReference(s, tok) == [s EXCEPT !.refs = @ \cup {<<tok, CurrentGlobalIndex(s)>>}]

ReleaseStrongReference(s, tok) == [s EXCEPT !.refs = {r \in @ : r[1] # tok}]

\* Drops the prefix that no strong reference pins and that lies strictly
\* behind the cursor.
CollectGarbage(s) ==
    LET lowest == s.global_count - Len(s.items)
        keep   == SetMin({CurrentGlobalIndex(s)} \cup {r[2] : r \in s.refs})
        n      == keep - lowest
    IN  IF n <= 0 THEN s
        ELSE [s EXCEPT !.items = SubSeq(@, n + 1, Len(@)), !.current_index = @ - n]

\* ------------------------------------------------ IteratorToIntStreamAdapter
CurrentItem(s) == FifoCurrentItem(s)

HasCurrentItem(s) == FifoHasCurrentItem(s)

IsAtStart(s) == FALSE

IsAtEnd(s) == FifoIsAtEnd(s)

IsI(s) == HasCurrentItem(s)

IsE(s) == IsAtEnd(s) /\ ~FifoIsEmpty(s)

IsEE(s) == IsAtEnd(s) /\ FifoIsEmpty(s)

\* Mutant: the item after the first one is pulled and buffered as well.
IntStreamInitializeBufferAhead(s) ==
    LET s1 == IF ItIsAtStart(s) THEN ItMoveToNext(s) ELSE s
        s2 == IF ItHasCurrentItem(s1) THEN FifoPush(s1, ItCurrentItem(s1)) ELSE s1
        s3 == IF ItHasCurrentItem(s2) THEN ItMoveToNext(s2) ELSE s2
        s4 == IF ItHasCurrentItem(s3) /\ s3.it # s2.it THEN FifoPush(s3, ItCurrentItem(s3)) ELSE s3
    IN  FifoMoveToNext(s4)

RECURSIVE IntStreamInitializeBuffer(_)
IntStreamInitializeBuffer(s) ==
    IF ItIsAtStart(s) THEN IntStreamInitializeBuffer(ItMoveToNext(s))
    ELSE IF ItHasCurrentItem(s) THEN FifoMoveToNext(FifoPush(s, ItCurrentItem(s)))
    ELSE FifoMoveToNext(s)

RECURSIVE TokenStreamInitializeBuffer(_)
TokenStreamInitializeBuffer(s) ==
    IF ItIsAtStart(s) THEN TokenStreamInitializeBuffer(ItMoveToNext(s))
    ELSE IF ~ItIsAtEofToken(s) THEN FifoMoveToNext(FifoPush(s, ItCurrentItem(s)))
    ELSE FifoMoveToNext(s)

InitializeBuffer(s) ==
    IF variant = "char" THEN IntStreamInitializeBuffer(s) ELSE TokenStreamInitializeBuffer(s)

Setup(it0) == InitializeBuffer([FifoMake EXCEPT !.it = it0])

HasMoreBuffer(s) == s.current_index + 1 # FifoCount(s)

IntStreamLoadOneItemFromIterator(s) ==
    IF ItHasCurrentItem(s)
    THEN LET s1 == ItMoveToNext(s)
         IN  IF ItHasCurrentItem(s1) THEN FifoPush(s1, ItCurrentItem(s1)) ELSE s1
    ELSE s

\* Mutant: the EOF token is pushed to the buffer like any other token.
TokenStreamLoadPushEof(s) ==
    IF ItHasCurrentItem(s)
    THEN IF ~ItIsAtEofToken(s)
         THEN LET s1 == ItMoveToNext(s)
              IN  IF ItHasCurrentItem(s1) THEN FifoPush(s1, ItCurrentItem(s1)) ELSE s1
         ELSE s
    ELSE s

\* Mutant: the source is moved on whatever its current item is.
TokenStreamLoadPastEof(s) ==
    IF ItHasCurrentItem(s)
    THEN LET s1 == ItMoveToNext(s)
         IN  IF ItHasCurrentItem(s1)
             THEN IF ~ItIsAtEofToken(s1) THEN FifoPush(s1, ItCurrentItem(s1)) ELSE s1
             ELSE s1
    ELSE s

TokenStreamLoadOneItemFromIterator(s) ==
    IF ItHasCurrentItem(s)
    THEN IF ~ItIsAtEofToken(s)
         THEN LET s1 == ItMoveToNext(s)
              IN  IF ItHasCurrentItem(s1)
                  THEN IF ~ItIsAtEofToken(s1) THEN FifoPush(s1, ItCurrentItem(s1)) ELSE s1
                  ELSE s1
         ELSE s
    ELSE s

LoadOneItemFromIterator(s) ==
    IF variant = "char" THEN IntStreamLoadOneItemFromIterator(s)
    ELSE TokenStreamLoadOneItemFromIterator(s)

\* Mutant: after loading an item the cursor is not advanced.
MoveToNextLoadOnly(s) ==
    IF HasMoreBuffer(s) THEN FifoMoveToNext(s)
    ELSE LoadOneItemFromIterator(s)

MoveToNext(s) ==
    IF HasMoreBuffer(s) THEN FifoMoveToNext(s)
    ELSE FifoMoveToNext(LoadOneItemFromIterator(s))

Size(s) == s.global_count

Index(s) == IF IsI(s) THEN CurrentGlobalIndex(s) ELSE Size(s)

RECURSIVE MoveToEndLoop(_)
MoveToEndLoop(s) == IF IsAtEnd(s) THEN s ELSE MoveToEndLoop(MoveToNext(s))

MoveToEnd(s) ==
    IF IsI(s) THEN MoveToEndLoop(FifoMoveToIndex(s, FifoCount(s) - 1))
    ELSE s

LowestIndexInBuffer(s) == s.global_count - FifoCount(s)

\* Mutant: the lower bound of the buffered range is not checked.
IndexIsInBufferNoLowerBound(s, index) == index < s.global_count

IndexIsInBuffer(s, index) == LowestIndexInBuffer(s) <= index /\ index < Size(s)

\* Mutant: the loop ignores diff and pulls the source to exhaustion.
SeekLoopToExhaustion(s, diff) == MoveToEndLoop(s)

\* Mutant: the loop does not stop at the end of the stream.
RECURSIVE SeekLoopPastEnd(_, _)
SeekLoopPastEnd(s, diff) ==
    IF diff = 0 THEN s ELSE SeekLoopPastEnd(FifoMoveToNext(LoadOneItemFromIterator(s)), diff - 1)

RECURSIVE SeekLoop(_, _)
SeekLoop(s, diff) ==
    IF diff = 0 \/ IsAtEnd(s) THEN s ELSE SeekLoop(MoveToNext(s), diff - 1)

\* Mutant: an index equal to size is not taken as beyond the stream.
SeekStrict(s, index) ==
    IF index < 0 THEN [s |-> s, raised |-> TRUE]
    ELSE IF Size(s) < index
        THEN IF IsI(s)
             THEN LET s1 == FifoMoveToIndex(s, FifoCount(s) - 1)
                  IN  [s |-> SeekLoop(s1, index - Index(s1)), raised |-> FALSE]
             ELSE [s |-> s, raised |-> FALSE]
        ELSE IF IndexIsInBuffer(s, index)
             THEN [s |-> MoveToGlobalIndex(s, index), raised |-> FALSE]
             ELSE [s |-> s, raised |-> TRUE]

\* Mutant: with an empty buffer, an index below size is moved to unchecked.
SeekEmptyBufferUnchecked(s, index) ==
    IF index < 0 THEN [s |-> s, raised |-> TRUE]
    ELSE IF IsI(s) THEN
        IF Size(s) <= index
        THEN LET s1 == FifoMoveToIndex(s, FifoCount(s) - 1)
             IN  [s |-> SeekLoop(s1, index - Index(s1)), raised |-> FALSE]
        ELSE IF IndexIsInBuffer(s, index)
             THEN [s |-> MoveToGlobalIndex(s, index), raised |-> FALSE]
             ELSE [s |-> s, raised |-> TRUE]
    ELSE IF IsE(s) THEN
        IF Size(s) <= index THEN [s |-> s, raised |-> FALSE]
        ELSE IF IndexIsInBuffer(s, index)
             THEN [s |-> MoveToGlobalIndex(s, index), raised |-> FALSE]
             ELSE [s |-> s, raised |-> TRUE]
    ELSE
        IF Size(s) <= index THEN [s |-> s, raised |-> FALSE]
        ELSE [s |-> MoveToGlobalIndex(s, index), raised |-> FALSE]

\* [s |-> the state after the call, raised |-> whether the call raised]
Seek(s, index) ==
    IF index < 0 THEN [s |-> s, raised |-> TRUE]
    ELSE IF IsI(s) THEN
        IF Size(s) <= index
        THEN LET s1 == FifoMoveToIndex(s, FifoCount(s) - 1)
             IN  [s |-> SeekLoop(s1, index - Index(s1)), raised |-> FALSE]
        ELSE IF IndexIsInBuffer(s, index)
             THEN [s |-> MoveToGlobalIndex(s, index), raised |-> FALSE]
             ELSE [s |-> s, raised |-> TRUE]
    ELSE IF IsE(s) THEN
        IF Size(s) <= index THEN [s |-> s, raised |-> FALSE]
        ELSE IF IndexIsInBuffer(s, index)
             THEN [s |-> MoveToGlobalIndex(s, index), raised |-> FALSE]
             ELSE [s |-> s, raised |-> TRUE]
    ELSE
        IF Size(s) <= index THEN [s |-> s, raised |-> FALSE]
        ELSE [s |-> s, raised |-> TRUE]

\* Mutant: consume collects garbage once it has moved.
ConsumeCollect(s) ==
    IF IsI(s) THEN [s |-> CollectGarbage(MoveToNext(s)), raised |-> FALSE]
    ELSE [s |-> s, raised |-> TRUE]

Consume(s) ==
    IF IsI(s) THEN [s |-> MoveToNext(s), raised |-> FALSE]
    ELSE [s |-> s, raised |-> TRUE]

\* Mutant: the second reference is released instead of the excluded one.
NewStrongReferenceExcludeWrongRelease(s, exclude, t1, t2) ==
    LET s1 == NewStrongReference(s, t1)
    IN  IF t1 = exclude
        THEN [s |-> ReleaseStrongReference(NewStrongReference(s1, t2), t2), result |-> t2]
        ELSE [s |-> s1, result |-> t1]

\* t1, t2: the tokens the allocator hands out on the first and on the second
\* new_strong_reference call.
NewStrongReferenceExclude(s, exclude, t1, t2) ==
    LET s1 == NewStrongReference(s, t1)
    IN  IF t1 = exclude
        THEN [s |-> ReleaseStrongReference(NewStrongReference(s1, t2), exclude), result |-> t2]
        ELSE [s |-> s1, result |-> t1]

\* Mutant: the token is taken as the allocator hands it out, 0 included.
MarkNoExclude(s, t1, t2) ==
    IF IsI(s) THEN [s |-> NewStrongReference(s, t1), result |-> t1]
    ELSE [s |-> s, result |-> 0]

Mark(s, t1, t2) ==
    IF IsI(s) THEN NewStrongReferenceExclude(s, 0, t1, t2)
    ELSE [s |-> s, result |-> 0]

\* Mutant: the reference is released and no garbage is collected.
ReleaseNoCollect(s, marker) == ReleaseStrongReference(s, marker)

\* Mutant: garbage is collected before the reference is released.
ReleaseCollectFirst(s, marker) == ReleaseStrongReference(CollectGarbage(s), marker)

Release(s, marker) == CollectGarbage(ReleaseStrongReference(s, marker))

\* Mutant: a positive offset is not shifted by one.
OffsetToIndexNoShift(s, offset) == Index(s) + offset

OffsetToIndex(s, offset) ==
    IF offset > 0 THEN Index(s) + offset - 1 ELSE Index(s) + offset

LAResult(s) == IF IsI(s) THEN ItemToInt(CurrentItem(s)) ELSE EOF

\* seek(index); result = _LA_result; seek(original_index)
SeekReadSeekBack(s, index) ==
    LET original_index == Index(s)
        r1 == Seek(s, index)
    IN  IF r1.raised THEN [s |-> r1.s, raised |-> TRUE, result |-> EOF]
        ELSE LET r2 == Seek(r1.s, original_index)
             IN  [s |-> r2.s, raised |-> r2.raised, result |-> LAResult(r1.s)]

IntStreamLA(s, offset, tok) ==
    LET index == OffsetToIndex(s, offset)
    IN  IF IsI(s)
        THEN LET r == SeekReadSeekBack(NewStrongReference(s, tok), index)
             IN  [r EXCEPT !.s = ReleaseStrongReference(@, tok)]
        ELSE SeekReadSeekBack(s, index)

\* Mutant: the direct read takes the last buffered item for the end of the
\* stream.
CharStreamLABufferEdge(s, offset, tok) ==
    IF offset = 1
    THEN [s |-> s, raised |-> FALSE,
          result |-> IF IsI(s) /\ HasMoreBuffer(s) THEN ItemToInt(CurrentItem(s)) ELSE EOF]
    ELSE IntStreamLA(s, offset, tok)

\* IteratorToCharStreamAdapter.LA
CharStreamLA(s, offset, tok) ==
    IF offset = 1 THEN [s |-> s, raised |-> FALSE, result |-> LAResult(s)]
    ELSE IntStreamLA(s, offset, tok)

LA(s, offset, tok) ==
    IF variant = "char" THEN CharStreamLA(s, offset, tok) ELSE IntStreamLA(s, offset, tok)

\* m = mark(); seek(i); seek(original_index); release(m), as a client issues it
RoundTrip(s, i, t1, t2) ==
    LET original_index == Index(s)
        m  == Mark(s, t1, t2)
        r1 == Seek(m.s, i)
        r2 == Seek(r1.s, original_index)
    IN  [s |-> Release(r2.s, m.result), accepted |-> ~r1.raised, raised |-> r1.raised \/ r2.raised]

\* ----------------------------------------------- IteratorToCharStreamAdapter
\* _write_text without the closing check on count.
RECURSIVE WriteTextNoRaise(_, _, _)
WriteTextNoRaise(s, count, text) ==
    IF IsI(s) /\ count # 0
    THEN WriteTextNoRaise(MoveToNext(s), count - 1, Append(text, CurrentItem(s)))
    ELSE [s |-> s, raised |-> FALSE, result |-> text]

RECURSIVE WriteText(_, _, _)
WriteText(s, count, text) ==
    IF IsI(s) /\ count # 0
    THEN WriteText(MoveToNext(s), count - 1, Append(text, CurrentItem(s)))
    ELSE [s |-> s, raised |-> count # 0, result |-> text]

\* seek(start); _write_text(strbuffer, length), without the seek back.
SeekWriteStay(s, start, length) ==
    LET r1 == Seek(s, start)
    IN  IF r1.raised THEN [s |-> r1.s, raised |-> TRUE, result |-> <<>>]
        ELSE LET w == WriteText(r1.s, length, <<>>)
             IN  [s |-> w.s, raised |-> w.raised, result |-> IF w.raised THEN <<>> ELSE w.result]

\* seek(start); _write_text(strbuffer, length); seek(original_index)
SeekWriteSeekBack(s, start, length) ==
    LET original_index == Index(s)
        r1 == Seek(s, start)
    IN  IF r1.raised THEN [s |-> r1.s, raised |-> TRUE, result |-> <<>>]
        ELSE LET w == WriteText(r1.s, length, <<>>)
             IN  IF w.raised THEN [s |-> w.s, raised |-> TRUE, result |-> <<>>]
                 ELSE LET r2 == Seek(w.s, original_index)
                      IN  [s |-> r2.s, raised |-> r2.raised, result |-> w.result]

GetText(s, start, stop, tok) ==
    IF start > stop + 1 THEN [s |-> s, raised |-> TRUE, result |-> <<>>]
    ELSE IF IsI(s)
        THEN LET r == SeekWriteSeekBack(NewStrongReference(s, tok), start, stop - start + 1)
             IN  [r EXCEPT !.s = ReleaseStrongReference(@, tok)]
        ELSE SeekWriteSeekBack(s, start, stop - start + 1)

\* ---------------------------------------------- IteratorToTokenStreamAdapter
NoToken == "None"

EofToken(s) == ItCurrentItem(s)

GetResult(s) == IF IsI(s) THEN CurrentItem(s) ELSE EofToken(s)

\* seek(index); result = _get_result; seek(original_index)
SeekGetSeekBack(s, index) ==
    LET original_index == Index(s)
        r1 == Seek(s, index)
    IN  IF r1.raised THEN [s |-> r1.s, raised |-> TRUE, result |-> NoToken]
        ELSE LET r2 == Seek(r1.s, original_index)
             IN  [s |-> r2.s, raised |-> r2.raised, result |-> GetResult(r1.s)]

Get(s, index, tok) ==
    IF IsI(s)
    THEN LET r == SeekGetSeekBack(NewStrongReference(s, tok), index)
         IN  [r EXCEPT !.s = ReleaseStrongReference(@, tok)]
    ELSE SeekGetSeekBack(s, index)

LT(s, offset, tok) ==
    LET index == OffsetToIndex(s, offset)
    IN  IF 0 <= index THEN Get(s, index, tok)
        ELSE [s |-> s, raised |-> FALSE, result |-> NoToken]

\* ------------------------------------------------------------------ actions
FreshTokens(s) == Tokens \ ActiveTokens(s)

\* The token of a reference that is taken and released within one call (LA,
\* getText, get): whichever token the allocator hands out, the call returns
\* the same result and leaves the same state.
ScratchToken(s) == SetMin(FreshTokens(s))

\* The allocator's second answer, asked for only when the first was 0.
SecondTokens(s, t1) == IF t1 = 0 THEN FreshTokens(s) \ {t1} ELSE {t1}

\* No call is in progress: the client is between two calls.
NoCall == [op |-> "none", arg |-> 0, raised |-> FALSE, result |-> 0, pre |-> FifoMake]

Idle == last.op = "none"

Call(op, arg, raised, result) ==
    [op |-> op, arg |-> arg, raised |-> raised, result |-> result, pre |-> stream]

Init ==
    /\ variant \in Variants
    /\ source \in Sources(variant)
    /\ \E it0 \in {0, 1} : stream = Setup(it0)
    /\ held = {}
    /\ released = FALSE
    /\ release_called = FALSE
    /\ last = NoCall
    /\ IterOff
    /\ FilterOff
    /\ TextOff

ConsumeAct ==
    LET r == Consume(stream)
    IN  /\ Idle
        /\ stream' = r.s
        /\ last' = Call("consume", 0, r.raised, 0)
        /\ UNCHANGED <<iterVars, filterVars, textVars, variant, source, held, released, release_called>>

MoveToNextAct ==
    /\ Idle
    /\ IsI(stream)
    /\ stream' = MoveToNext(stream)
    /\ last' = Call("move_to_next", 0, FALSE, 0)
    /\ UNCHANGED <<iterVars, filterVars, textVars, variant, source, held, released, release_called>>

MoveToEndAct ==
    /\ Idle
    /\ stream' = MoveToEnd(stream)
    /\ last' = Call("move_to_end", 0, FALSE, 0)
    /\ UNCHANGED <<iterVars, filterVars, textVars, variant, source, held, released, release_called>>

SeekAct ==
    \E index \in SeekArgs :
        LET r == Seek(stream, index)
        IN  /\ Idle
            /\ stream' = r.s
            /\ last' = Call("seek", index, r.raised, 0)
            /\ UNCHANGED <<iterVars, filterVars, textVars, variant, source, held, released, release_called>>

\* last.arg is the allocator's first answer.
MarkAct ==
    /\ Idle
    /\ Cardinality(held) < MaxMarks
    /\ \E t1 \in FreshTokens(stream) : \E t2 \in SecondTokens(stream, t1) :
        LET r == Mark(stream, t1, t2)
        IN  /\ stream' = r.s
            /\ held' = IF IsI(stream) THEN held \cup {<<r.result, Index(stream)>>} ELSE held
            /\ last' = Call("mark", t1, FALSE, r.result)
            /\ UNCHANGED <<iterVars, filterVars, textVars, variant, source, released, release_called>>

ReleaseAct ==
    \E marker \in ReleaseArgs :
        /\ Idle
        /\ stream' = Release(stream, marker)
        /\ held' = {m \in held : m[1] # marker}
        /\ released' = (released \/ \E m \in held : m[1] = marker)
        /\ release_called' = TRUE
        /\ last' = Call("release", marker, FALSE, 0)
        /\ UNCHANGED <<iterVars, filterVars, textVars, variant, source>>

LAAct ==
    \E offset \in Offsets :
        LET r == LA(stream, offset, ScratchToken(stream))
        IN  /\ Idle
            /\ stream' = r.s
            /\ last' = Call("LA", offset, r.raised, r.result)
            /\ UNCHANGED <<iterVars, filterVars, textVars, variant, source, held, released, release_called>>

RoundTripAct ==
    /\ Idle
    /\ Cardinality(held) < MaxMarks
    /\ \E i \in SeekArgs : \E t1 \in FreshTokens(stream) : \E t2 \in SecondTokens(stream, t1) :
        LET r == RoundTrip(stream, i, t1, t2)
        IN  /\ r.accepted
            /\ stream' = r.s
            /\ released' = (released \/ IsI(stream))
            /\ release_called' = TRUE
            /\ last' = Call("roundtrip", i, r.raised, 0)
            /\ UNCHANGED <<iterVars, filterVars, textVars, variant, source, held>>

GetTextAct ==
    /\ Idle
    /\ variant = "char"
    /\ \E start \in TextArgs : \E stop \in TextArgs :
        LET r == GetText(stream, start, stop, ScratchToken(stream))
        IN  /\ stream' = r.s
            /\ last' = Call("getText", <<start, stop>>, r.raised, r.result)
            /\ UNCHANGED <<iterVars, filterVars, textVars, variant, source, held, released, release_called>>

GetAct ==
    /\ Idle
    /\ variant = "token"
    /\ \E index \in SeekArgs :
        LET r == Get(stream, index, ScratchToken(stream))
        IN  /\ stream' = r.s
            /\ last' = Call("get", index, r.raised, r.result)
            /\ UNCHANGED <<iterVars, filterVars, textVars, variant, source, held, released, release_called>>

LTAct ==
    /\ Idle
    /\ variant = "token"
    /\ \E offset \in Offsets :
        LET r == LT(stream, offset, ScratchToken(stream))
        IN  /\ stream' = r.s
            /\ last' = Call("LT", offset, r.raised, r.result)
            /\ UNCHANGED <<iterVars, filterVars, textVars, variant, source, held, released, release_called>>

\* The call has returned and the client goes on to its next call.
ReturnAct ==
    /\ ~Idle
    /\ last.op # "new"
    /\ last' = NoCall
    /\ UNCHANGED <<iterVars, filterVars, textVars, variant, source, stream, held, released, release_called>>

Next ==
    \/ ConsumeAct
    \/ MoveToNextAct
    \/ MoveToEndAct
    \/ SeekAct
    \/ MarkAct
    \/ ReleaseAct
    \/ LAAct
    \/ RoundTripAct
    \/ GetTextAct
    \/ GetAct
    \/ LTAct
    \/ ReturnAct

Spec == Init /\ [][Next]_vars

\* ------------------------------------------------------------ ground truth
\* The items of the stream, whatever has been pulled so far: all of a
\* character source, and the tokens before the first EOF token of a token
\* source. The item at global index g is source[g + 1].
TotalItems ==
    IF variant = "char" THEN Len(source)
    ELSE (CHOOSE i \in 1 .. Len(source) :
            /\ source[i].type = TokenEOF
            /\ \A j \in 1 .. (i - 1) : source[j].type # TokenEOF) - 1

StreamItem(g) == source[g + 1]

\* Whether seek(j) raises from state s.
SeekFails(s, j) == Seek(s, j).raised

\* Where a garbage-collection pass leaves the lowest buffered index: at the
\* cursor, or at the lowest pinned index when that is lower.
GcFloor(s) == SetMin({Index(s)} \cup {r[2] : r \in s.refs})

SameCursor(p, s) ==
    /\ Index(s) = Index(p)
    /\ IsI(s) <=> IsI(p)
    /\ IsAtEnd(s) <=> IsAtEnd(p)
    /\ IsI(p) => CurrentItem(s) = CurrentItem(p)

TypeOK ==
    /\ stream.current_index \in -1 .. (Len(stream.items) + 1)
    /\ stream.global_count <= Len(source)

\* ------------------------------------------------------------------ claims

\* C1: seek(i) with 0 <= i < size succeeds exactly when i is at or above the
\* lowest buffered index, and then leaves the stream in state I with
\* index = i; seek(i) with i < 0 or i below the lowest buffered index raises
\* and leaves index, size and the buffered items unchanged. In I, E and EE.
C1_SeekWithinSize ==
    last.op = "seek" =>
        LET i == last.arg
            p == last.pre
        IN  /\ (0 <= i /\ i < Size(p)) => (~last.raised <=> LowestIndexInBuffer(p) <= i)
            /\ (0 <= i /\ i < Size(p) /\ ~last.raised) => (IsI(stream) /\ Index(stream) = i)
            /\ (i < 0 \/ (i < Size(p) /\ i < LowestIndexInBuffer(p))) =>
                    /\ last.raised
                    /\ Index(stream) = Index(p)
                    /\ Size(stream) = Size(p)
                    /\ LowestIndexInBuffer(stream) = LowestIndexInBuffer(p)
                    /\ stream.items = p.items

\* A seek to a released index, from state E, has raised.
C1_Witness ==
    /\ last.op = "seek"
    /\ last.raised
    /\ 0 <= last.arg
    /\ last.arg < LowestIndexInBuffer(last.pre)
    /\ IsE(last.pre)

\* C2, as claimed: seek(i) with i >= size moves the stream to the end state
\* with index = size and the source pulled to exhaustion.
C2_Original ==
    (last.op = "seek" /\ last.arg >= Size(last.pre)) =>
        /\ IsAtEnd(stream)
        /\ ~HasCurrentItem(stream)
        /\ Index(stream) = Size(stream)
        /\ Size(stream) = TotalItems

\* C2, amended: seek(i) with i >= size never raises and pulls the source only
\* as far as position i: the stream ends in state I with index = i and
\* size = i + 1 when it holds more than i items, and in the end state with
\* index = size = the number of items of the stream otherwise.
C2_SeekBeyondSize ==
    (last.op = "seek" /\ last.arg >= Size(last.pre)) =>
        /\ ~last.raised
        /\ IF last.arg < TotalItems
           THEN IsI(stream) /\ Index(stream) = last.arg /\ Size(stream) = last.arg + 1
           ELSE /\ IsAtEnd(stream)
                /\ ~HasCurrentItem(stream)
                /\ Index(stream) = Size(stream)
                /\ Size(stream) = TotalItems

\* A seek to i >= size has stopped on item i, with items of the source unread.
C2_Witness ==
    /\ last.op = "seek"
    /\ last.arg >= Size(last.pre)
    /\ IsI(stream)
    /\ Index(stream) = last.arg
    /\ Size(stream) < TotalItems

\* C3: while the client holds a mark taken in state I at index p, seek(j)
\* succeeds for every p <= j < size: no item at or after p is discarded,
\* whatever calls are made and whichever other marks are released.
C3_MarkPins ==
    \A m \in held :
        /\ LowestIndexInBuffer(stream) <= m[2]
        /\ \A j \in m[2] .. (Size(stream) - 1) : ~SeekFails(stream, j)

\* A release of another mark has collected the prefix up to a mark the client
\* still holds, behind the cursor, and no further.
C3_Witness ==
    /\ last.op = "release"
    /\ \E m \in held :
        /\ m[1] # last.arg
        /\ m[2] < Index(stream)
        /\ LowestIndexInBuffer(stream) = m[2]
        /\ LowestIndexInBuffer(last.pre) < m[2]

\* C4, as claimed: once the marks the client took are all released and the
\* cursor is past index k, the lowest buffered index is <= the cursor index and
\* seek(j) fails for every j <= k - 1.
C4_Original ==
    (Idle /\ released /\ held = {}) =>
        /\ LowestIndexInBuffer(stream) <= Index(stream)
        /\ \A k \in 0 .. (Index(stream) - 1) : \A j \in 0 .. (k - 1) : SeekFails(stream, j)

\* C4, amended: the lowest buffered index is always <= the cursor index; right
\* after a release() call that leaves no mark active, made with the cursor
\* past index k, the lowest buffered index is the cursor index and seek(j)
\* fails for every j below the cursor index, so for every j <= k - 1; and no
\* call other than release() (alone or closing a mark/seek round trip) raises
\* the lowest buffered index, so the positions the cursor passes afterwards
\* stay buffered until the next release.
C4_GarbageCollection ==
    /\ LowestIndexInBuffer(stream) <= Index(stream)
    /\ (last.op = "release" /\ held = {}) =>
            /\ LowestIndexInBuffer(stream) = Index(stream)
            /\ \A j \in 0 .. (Index(stream) - 1) : SeekFails(stream, j)
    /\ last.op \notin {"none", "release", "roundtrip"} =>
            LowestIndexInBuffer(stream) = LowestIndexInBuffer(last.pre)

\* The last mark has been released with the cursor two or more items past the
\* marked index, and the pass has collected them.
C4_Witness ==
    /\ last.op = "release"
    /\ held = {}
    /\ last.pre.refs # {}
    /\ Index(stream) >= 2
    /\ LowestIndexInBuffer(last.pre) = 0
    /\ LowestIndexInBuffer(stream) = Index(stream)

\* C5, as claimed: m = mark(); seek(i); seek(original_index); release(m), for
\* an index i that seek accepts, leaves index, size, the current item and the
\* positions seek succeeds for as they were.
C5_Original ==
    last.op = "roundtrip" =>
        /\ SameCursor(last.pre, stream)
        /\ Size(stream) = Size(last.pre)
        /\ \A j \in SeekArgs : SeekFails(stream, j) <=> SeekFails(last.pre, j)

\* C5, amended: the sequence raises nothing and leaves index, the current item
\* and the active marks as they were; size is as it was when i < size and
\* never smaller; the lowest buffered index is as it was when no unpinned
\* prefix lay behind the cursor before, and otherwise rises to the cursor or
\* the lowest active mark (the collection release() runs).
C5_RoundTrip ==
    last.op = "roundtrip" =>
        LET p == last.pre
        IN  /\ ~last.raised
            /\ SameCursor(p, stream)
            /\ stream.refs = p.refs
            /\ Size(stream) >= Size(p)
            /\ last.arg < Size(p) => Size(stream) = Size(p)
            /\ LowestIndexInBuffer(stream) = GcFloor(p)
            /\ LowestIndexInBuffer(p) = GcFloor(p) =>
                    \A j \in SeekArgs : SeekFails(stream, j) <=> SeekFails(p, j)

\* A round trip from the end state E into the buffer and back.
C5_Witness ==
    /\ last.op = "roundtrip"
    /\ IsE(last.pre)
    /\ last.arg < Size(last.pre)
    /\ LowestIndexInBuffer(last.pre) = GcFloor(last.pre)
    /\ IsE(stream)

\* C6: mark() in state I returns a strictly positive token that is an active
\* reference of the buffer; mark() in E or EE returns 0 and changes nothing;
\* 0 is never an active reference, no mark the client holds is 0, and
\* release(0) releases no reference.
C6_MarkTokens ==
    /\ 0 \notin ActiveTokens(stream)
    /\ \A m \in held : m[1] > 0 /\ m \in stream.refs
    /\ last.op = "mark" =>
            IF IsI(last.pre)
            THEN last.result > 0 /\ <<last.result, Index(last.pre)>> \in stream.refs
            ELSE last.result = 0 /\ stream = last.pre
    /\ (last.op = "release" /\ last.arg = 0) => stream.refs = last.pre.refs

\* mark() in state I, the allocator having handed out 0 first.
C6_Witness ==
    /\ last.op = "mark"
    /\ IsI(last.pre)
    /\ last.arg = 0
    /\ last.result > 0

\* C7: release(token) does not raise, whatever the token; a token that is no
\* active reference leaves the active references as they were; and every
\* release leaves the buffer collected: nothing unpinned is left behind the
\* cursor. In I, E and EE.
C7_ReleaseTolerant ==
    last.op = "release" =>
        /\ ~last.raised
        /\ last.arg \notin ActiveTokens(last.pre) => stream.refs = last.pre.refs
        /\ stream.refs = {r \in last.pre.refs : r[1] # last.arg}
        /\ LowestIndexInBuffer(stream) = GcFloor(stream)
        /\ SameCursor(last.pre, stream)
        /\ Size(stream) = Size(last.pre)

\* release() of an unknown token in state E, which has collected the buffer.
C7_Witness ==
    /\ last.op = "release"
    /\ last.arg \notin ActiveTokens(last.pre)
    /\ IsE(last.pre)
    /\ IsEE(stream)

\* C8: consume() in state I advances index by exactly one, ending in I or at
\* the end with index = size; in E or EE it raises and changes nothing.
C8_Consume ==
    last.op = "consume" =>
        IF IsI(last.pre)
        THEN /\ ~last.raised
             /\ Index(stream) = Index(last.pre) + 1
             /\ \/ IsI(stream)
                \/ IsAtEnd(stream) /\ Index(stream) = Size(stream) /\ Size(stream) = TotalItems
        ELSE last.raised /\ stream = last.pre

\* consume() on the last item of the stream, which has pulled the source and
\* found it exhausted.
C8_Witness ==
    /\ last.op = "consume"
    /\ IsI(last.pre)
    /\ IsE(stream)
    /\ Index(stream) >= 2

\* C9: LA(offset) with offset >= 1 returns the integer value of the item at
\* global index index + offset - 1, or EOF when the stream has no such item;
\* with offset < 0 it returns the item at index + offset when that is still
\* buffered; and it leaves index, the current item and the marks as before.
C9_Lookahead ==
    last.op = "LA" =>
        LET p == last.pre
            g == IF last.arg >= 1 THEN Index(p) + last.arg - 1 ELSE Index(p) + last.arg
        IN  /\ last.arg >= 1 =>
                    /\ ~last.raised
                    /\ last.result = IF g < TotalItems THEN ItemToInt(StreamItem(g)) ELSE EOF
            /\ (last.arg < 0 /\ LowestIndexInBuffer(p) <= g) =>
                    /\ ~last.raised
                    /\ last.result = ItemToInt(StreamItem(g))
            /\ SameCursor(p, stream)
            /\ stream.refs = p.refs
            /\ LowestIndexInBuffer(stream) = LowestIndexInBuffer(p)

\* A lookahead of two or more that has pulled the source and returned an item.
C9_Witness ==
    /\ last.op = "LA"
    /\ last.arg >= 2
    /\ last.result # EOF
    /\ Size(stream) > Size(last.pre)

\* C10: has_current_item holds iff index < size, is_at_end holds iff
\* index = size, is_at_start never holds, and exactly one of has_current_item
\* and is_at_end holds.
C10_StateInference ==
    /\ HasCurrentItem(stream) <=> Index(stream) < Size(stream)
    /\ IsAtEnd(stream) <=> Index(stream) = Size(stream)
    /\ ~IsAtStart(stream)
    /\ HasCurrentItem(stream) # IsAtEnd(stream)
    /\ IsI(stream) => CurrentGlobalIndex(stream) \in LowestIndexInBuffer(stream) .. (Size(stream) - 1)

\* The stream is in state EE after it has held items.
C10_Witness ==
    /\ IsEE(stream)
    /\ Size(stream) > 0
    /\ last.op = "release"

\* C11: on the character stream, a getText(start, stop) that does not raise
\* returns exactly the characters at global indices start .. stop, in order
\* (the empty string when start = stop + 1), and leaves index, the current
\* item and the marks as they were, in state I and in state E.
C11_GetText ==
    (last.op = "getText" /\ ~last.raised) =>
        LET start == last.arg[1]
            stop == last.arg[2]
        IN  /\ last.result = [k \in 1 .. (stop - start + 1) |-> StreamItem(start + k - 1)]
            /\ start = stop + 1 => last.result = <<>>
            /\ SameCursor(last.pre, stream)
            /\ stream.refs = last.pre.refs

\* getText in state I has returned two or more characters, starting behind
\* the cursor.
C11_Witness ==
    /\ last.op = "getText"
    /\ ~last.raised
    /\ IsI(last.pre)
    /\ last.arg[1] < Index(last.pre)
    /\ Len(last.result) >= 2

SourceEofToken == source[TotalItems + 1]

\* C13: on the token stream, the EOF token of the source is never a buffered
\* item nor the current item; at the position of the EOF token the adapter
\* reports has_current_item false and is_at_end true, its source iterator
\* resting on that token; and get(index) and LT(offset) for a position at or
\* past the end return that token of the source, on every call.
C13_EofToken ==
    variant = "token" =>
        /\ \A i \in 1 .. Len(stream.items) : stream.items[i].type # TokenEOF
        /\ HasCurrentItem(stream) => CurrentItem(stream).type # TokenEOF
        /\ Index(stream) = TotalItems => (~HasCurrentItem(stream) /\ IsAtEnd(stream))
        /\ IsAtEnd(stream) => (Index(stream) = TotalItems /\ ItCurrentItem(stream) = SourceEofToken)
        /\ (last.op = "get" /\ last.arg >= TotalItems) =>
                (~last.raised /\ last.result = SourceEofToken)
        /\ (last.op = "LT" /\ OffsetToIndex(last.pre, last.arg) >= TotalItems) =>
                (~last.raised /\ last.result = SourceEofToken)

\* LT in state I has looked past the last token, pulled the source up to its
\* EOF token and returned it, the source holding a token after it.
C13_Witness ==
    /\ variant = "token"
    /\ last.op = "LT"
    /\ IsI(last.pre)
    /\ last.pre.it <= TotalItems
    /\ OffsetToIndex(last.pre, last.arg) >= TotalItems
    /\ ~last.raised
    /\ last.result = SourceEofToken
    /\ Len(source) > TotalItems + 1

\* =================================================== the pull iterators
\* Iterators of autorecurse.lib.iterator and the ones built on them. An
\* operation returns [s |-> the iterator after it, raised |-> whether it raised].

MaxItems == 2     \* items of one inner list
MaxInner == 3     \* inner iterators of a concatenator, tokens of a token list
MaxTargets == 2   \* targets of one rule
MaxDecls == 3     \* declarations the rule parser yields
MaxIndex == 3     \* cap of the _index fields, which grow without bound
MaxNames == 3     \* filenames of a priority list
MaxDirs == 3      \* directories of a tree

Done(s) == [s |-> s, raised |-> FALSE]
Raised(s) == [s |-> s, raised |-> TRUE]

\* ----------------------------------------------------------- ListIterator
ListMake(it) == [list |-> it, is_at_start |-> TRUE]

ListCurrentItem(l) == l.list[1]

ListIsAtStart(l) == l.is_at_start

ListHasCurrentItem(l) == ~(ListIsAtStart(l) \/ Len(l.list) = 0)

\* Mutant: is_at_end looks at the list only.
ListIsAtEndIgnoreStart(l) == Len(l.list) = 0

ListIsAtEnd(l) == ~ListIsAtStart(l) /\ Len(l.list) = 0

\* list.pop(0) raises IndexError on an empty list.
ListMoveToNext(l) ==
    IF ListIsAtStart(l) THEN Done([l EXCEPT !.is_at_start = FALSE])
    ELSE IF l.list = <<>> THEN Raised(l)
    ELSE Done([l EXCEPT !.list = Tail(@)])

ListMoveToEnd(l) == Done([l EXCEPT !.is_at_start = FALSE, !.list = <<>>])

\* --------------------------------------------------- IteratorConcatenator
\* _source is a ListIterator of ListIterators; _current_iterator is None or
\* the current item of _source (the same object: a move of the one is a move
\* of the other).
ConcatCurrentIterator(c) == ListCurrentItem(c.source)

ConcatSetCurrent(c, inner) ==
    [c EXCEPT !.source.list = <<inner>> \o Tail(@), !.has_current_iterator = TRUE]

ConcatToNone(c) == [c EXCEPT !.has_current_iterator = FALSE]

ConcatCurrentItem(c) == ListCurrentItem(ConcatCurrentIterator(c))

ConcatHasCurrentItem(c) == ListHasCurrentItem(c.source)

ConcatIsAtStart(c) == ListIsAtStart(c.source)

ConcatIsAtEnd(c) == ListIsAtEnd(c.source)

\* Mutant: the loop stops on the first inner iterator, empty or not.
ConcatMoveToFirstIterator(c) ==
    LET c1 == [ConcatToNone(c) EXCEPT !.source = ListMoveToNext(c.source).s]
    IN  IF ListIsAtEnd(c1.source) THEN ConcatToNone(c1)
        ELSE ConcatSetCurrent(c1, ListMoveToNext(ListCurrentItem(c1.source)).s)

RECURSIVE ConcatMoveToNextNonEmptyIterator(_)
ConcatMoveToNextNonEmptyIterator(c) ==
    LET c1 == [ConcatToNone(c) EXCEPT !.source = ListMoveToNext(c.source).s]
    IN  IF ListIsAtEnd(c1.source) THEN ConcatToNone(c1)
        ELSE LET c2 == ConcatSetCurrent(c1, ListMoveToNext(ListCurrentItem(c1.source)).s)
             IN  IF ListHasCurrentItem(ConcatCurrentIterator(c2)) THEN c2
                 ELSE ConcatMoveToNextNonEmptyIterator(c2)

RECURSIVE ConcatInitCurrentIterator(_)
ConcatInitCurrentIterator(c) ==
    IF ListIsAtStart(c.source) THEN ConcatToNone(c)
    ELSE IF ListHasCurrentItem(c.source)
    THEN LET c1 == ConcatSetCurrent(c, ListCurrentItem(c.source))
         IN  IF ListIsAtStart(ConcatCurrentIterator(c1))
             THEN ConcatInitCurrentIterator(
                      ConcatSetCurrent(c1, ListMoveToNext(ConcatCurrentIterator(c1)).s))
             ELSE IF ListHasCurrentItem(ConcatCurrentIterator(c1)) THEN c1
             ELSE ConcatMoveToNextNonEmptyIterator(c1)
    ELSE ConcatToNone(c)

ConcatSetup(src) == ConcatInitCurrentIterator([source |-> src, has_current_iterator |-> FALSE])

\* self._current_iterator.move_to_next() raises AttributeError when
\* _current_iterator is None.
ConcatMoveToNext(c) ==
    IF ConcatIsAtStart(c) THEN Done(ConcatMoveToNextNonEmptyIterator(c))
    ELSE IF ~c.has_current_iterator THEN Raised(c)
    ELSE LET r == ListMoveToNext(ConcatCurrentIterator(c))
             c1 == ConcatSetCurrent(c, r.s)
         IN  IF r.raised THEN Raised(c1)
             ELSE IF ListIsAtEnd(ConcatCurrentIterator(c1))
             THEN Done(ConcatMoveToNextNonEmptyIterator(c1))
             ELSE Done(c1)

\* -------------------------------------------- TokenSourceToIteratorAdapter
\* The token source yields the tokens of input, one for each nextToken(), and
\* its EOF token again once it is through. pos counts the nextToken() calls,
\* up to one call past the EOF token.
NextToken(t) ==
    IF t.pos < Len(input) THEN input[t.pos + 1] ELSE input[Len(input)]

TokenSourceSetup == [has_current |-> FALSE, current_item |-> MakeToken(TokenEOF),
                     is_at_end |-> FALSE, pos |-> 0]

TokenSourceCurrentItem(t) == t.current_item

TokenSourceHasCurrentItem(t) == t.has_current

TokenSourceIsAtEnd(t) == t.is_at_end

TokenSourceIsAtStart(t) == ~(TokenSourceHasCurrentItem(t) \/ TokenSourceIsAtEnd(t))

TokenSourcePull(t) ==
    [t EXCEPT !.has_current = TRUE, !.current_item = NextToken(t),
              !.is_at_end = FALSE, !.pos = IF @ <= Len(input) THEN @ + 1 ELSE @]

TokenSourceToE(t) ==
    [t EXCEPT !.has_current = FALSE, !.current_item = MakeToken(TokenEOF), !.is_at_end = TRUE]

\* Mutant: a token pulled is looked at first, and an EOF token ends the
\* iteration without being yielded.
TokenSourceMoveToNextDropEof(t) ==
    IF TokenSourceIsAtEnd(t) THEN Raised(t)
    ELSE LET t1 == TokenSourcePull(t)
         IN  IF TokenSourceCurrentItem(t1).type # TokenEOF THEN Done(t1)
             ELSE Done(TokenSourceToE(t1))

\* self.current_item.type raises AttributeError when current_item is None.
TokenSourceMoveToNext(t) ==
    IF TokenSourceIsAtStart(t) THEN Done(TokenSourcePull(t))
    ELSE IF ~t.has_current THEN Raised(t)
    ELSE IF TokenSourceCurrentItem(t).type # TokenEOF THEN Done(TokenSourcePull(t))
    ELSE Done(TokenSourceToE(t))

\* ------------------------------------------------------ TokenToCharIterator
\* _source is a ListIterator of tokens; _text is None (has_text false) or the
\* text of a token, a sequence of characters.
TextToken(chars) == [type |-> 1, text |-> chars]

TokenToCharToE(t) == [t EXCEPT !.has_text = FALSE, !.text = <<>>]

TokenToCharSetText(t) ==
    IF ListCurrentItem(t.source).type # TokenEOF
    THEN [t EXCEPT !.has_text = TRUE, !.text = ListCurrentItem(t.source).text]
    ELSE TokenToCharToE(t)

TokenToCharInitialize(t) ==
    IF ListIsAtStart(t.source) THEN t
    ELSE IF ListHasCurrentItem(t.source) THEN TokenToCharSetText(t)
    ELSE t

TokenToCharSetup(src) ==
    TokenToCharInitialize([source |-> src, index |-> 0, has_text |-> FALSE, text |-> <<>>])

TokenToCharCurrentItem(t) == t.text[t.index + 1]

TokenToCharHasCurrentItem(t) == t.has_text

TokenToCharIsAtStart(t) == ListIsAtStart(t.source)

TokenToCharIsAtEnd(t) == ~(TokenToCharHasCurrentItem(t) \/ TokenToCharIsAtStart(t))

TokenToCharCurrentLength(t) ==
    IF TokenToCharIsAtStart(t) THEN 0
    ELSE IF TokenToCharHasCurrentItem(t) THEN Len(t.text)
    ELSE 0

TokenToCharMoveToNextText(t) ==
    LET t1 == [t EXCEPT !.source = ListMoveToNext(t.source).s]
    IN  IF ListHasCurrentItem(t1.source) THEN TokenToCharSetText(t1)
        ELSE TokenToCharToE(t1)

RECURSIVE TokenToCharSkipBlank(_)
TokenToCharSkipBlank(t) ==
    IF TokenToCharCurrentLength(t) = 0 /\ ~TokenToCharIsAtEnd(t)
    THEN TokenToCharSkipBlank(TokenToCharMoveToNextText(t))
    ELSE t

TokenToCharMoveToNextNonBlankToken(t) == TokenToCharSkipBlank(TokenToCharMoveToNextText(t))

TokenToCharMoveToNext(t) ==
    IF TokenToCharIsAtStart(t) THEN Done(TokenToCharMoveToNextNonBlankToken(t))
    ELSE IF t.index + 1 # TokenToCharCurrentLength(t)
    THEN Done([t EXCEPT !.index = @ + 1])
    ELSE Done(TokenToCharMoveToNextNonBlankToken([t EXCEPT !.index = 0]))

\* ------------------------------------------------ ParseContextTargetBuilder
SetMax(S) == CHOOSE x \in S : \A y \in S : y <= x

\* str.rfind(ch): the highest index (from 0) of ch in text, -1 when absent.
RFind(text, ch) ==
    LET found == {i \in 1 .. Len(text) : text[i] = ch}
    IN  IF found = {} THEN -1 ELSE SetMax(found) - 1

\* text[0:end_index]: a negative end_index counts from the end of the text,
\* and the bounds are clipped to the text.
SliceTo(text, end_index) ==
    LET e == IF end_index < 0 THEN Len(text) + end_index ELSE end_index
        clipped == IF e < 0 THEN 0 ELSE IF e > Len(text) THEN Len(text) ELSE e
    IN  SubSeq(text, 1, clipped)

\* Mutant: the newline test does not count the tab already found.
TrimRecipeLineNoCarry(recipe_line) ==
    LET tab == IF RFind(recipe_line, "\t") + 1 = Len(recipe_line) THEN 1 ELSE 0
        remove_count == IF RFind(recipe_line, "\n") + 1 = Len(recipe_line)
                        THEN tab + 1 ELSE tab
    IN  SliceTo(recipe_line, Len(recipe_line) - remove_count)

TrimRecipeLine(recipe_line) ==
    LET tab == IF RFind(recipe_line, "\t") + 1 + 0 = Len(recipe_line) THEN 1 ELSE 0
        remove_count == IF RFind(recipe_line, "\n") + 1 + tab = Len(recipe_line)
                        THEN tab + 1 ELSE tab
    IN  SliceTo(recipe_line, Len(recipe_line) - remove_count)

\* Target.make(prerequisites, order_only_prerequisites, recipe_lines) with the
\* path of the target_index-th target of the context (from 0); file is not set.
BuildTarget(context, target_index) ==
    [path |-> context.target[target_index + 1],
     prerequisites |-> context.prerequisite,
     order_only_prerequisites |-> context.orderOnlyPrerequisite,
     recipe_lines |-> [k \in 1 .. Len(context.recipe) |-> TrimRecipeLine(context.recipe[k])],
     file |-> "None"]

\* ------------------------------------- MakefileRuleParserToIteratorAdapter
\* input[d] is the number of targets of the rule of the d-th declaration the
\* parser yields, 0 for a declaration with no makefileRule(); after the last
\* one, declaration() raises ParseCancellationException. The identifiers of a
\* rule name the rule, so that no two rules share one; every rule has one
\* prerequisite, one order-only prerequisite and two recipe lines, the first
\* ending in a newline and the second in a tab and a newline.
MakefileRuleContext(d) ==
    [target |-> [i \in 1 .. input[d] |-> <<"target", d, i>>],
     prerequisite |-> << <<"prerequisite", d>> >>,
     orderOnlyPrerequisite |-> << <<"order-only", d>> >>,
     recipe |-> << <<Alphabet[d], "\n">>, <<Alphabet[d], "\t", "\n">> >>]

NoTarget ==
    [path |-> <<>>, prerequisites |-> <<>>, order_only_prerequisites |-> <<>>,
     recipe_lines |-> <<>>, file |-> "None"]

\* make(parser): pos is the number of declarations the parser has yielded,
\* asked the number of calls of declaration().
RuleParserToS == [index |-> 0, has_target |-> FALSE, target |-> NoTarget,
                  context |-> 0, is_at_end |-> FALSE, makefile |-> "None",
                  pos |-> 0, asked |-> 0]

\* Factory.make_target_iterator_for_file sets the makefile of the adapter.
FactoryMakefile == "Makefile.make(path)"

FactoryTargetIterator == [RuleParserToS EXCEPT !.makefile = FactoryMakefile]

\* Mutant: _to_E only sets _is_at_end.
RuleParserToEKeepTarget(e) == [e EXCEPT !.is_at_end = TRUE]

RuleParserToE(e) ==
    [e EXCEPT !.index = 0, !.has_target = FALSE, !.target = NoTarget,
              !.context = 0, !.is_at_end = TRUE]

RuleParserCurrentItem(e) == e.target

RuleParserHasCurrentItem(e) == e.has_target

RuleParserIsAtEnd(e) == e.is_at_end

RuleParserIsAtStart(e) == ~(RuleParserHasCurrentItem(e) \/ RuleParserIsAtEnd(e))

RuleParserHasContext(e) == e.context # 0

RuleParserCurrentLength(e) ==
    IF RuleParserIsAtStart(e) THEN 0
    ELSE IF RuleParserHasCurrentItem(e) THEN Len(MakefileRuleContext(e.context).target)
    ELSE 0

RuleParserGetNextContext(e) ==
    IF e.pos < Len(input)
    THEN [e EXCEPT !.asked = @ + 1, !.pos = @ + 1,
                   !.context = IF input[e.pos + 1] = 0 THEN 0 ELSE e.pos + 1]
    ELSE RuleParserToE([e EXCEPT !.asked = @ + 1])

RECURSIVE RuleParserSkipEmpty(_)
RuleParserSkipEmpty(e) ==
    IF ~(RuleParserHasContext(e) \/ RuleParserIsAtEnd(e))
    THEN RuleParserSkipEmpty(RuleParserGetNextContext(e))
    ELSE e

RuleParserGetNextNonEmptyContext(e) == RuleParserSkipEmpty(RuleParserGetNextContext(e))

\* Mutant: build_target accepts a context that is None.
RuleParserGenerateTargetOfNone(e) ==
    IF ~RuleParserHasContext(e) THEN Done([e EXCEPT !.has_target = TRUE])
    ELSE Done([e EXCEPT !.has_target = TRUE,
                        !.target = [BuildTarget(MakefileRuleContext(e.context), e.index)
                                        EXCEPT !.file = e.makefile]])

\* build_target raises AttributeError on a context that is None, and on a
\* target_index the context has no target for.
RuleParserGenerateTarget(e) ==
    IF ~RuleParserHasContext(e) THEN Raised(e)
    ELSE IF e.index >= Len(MakefileRuleContext(e.context).target) THEN Raised(e)
    ELSE Done([e EXCEPT !.has_target = TRUE,
                        !.target = [BuildTarget(MakefileRuleContext(e.context), e.index)
                                        EXCEPT !.file = e.makefile]])

RuleParserGetNextTarget(e) ==
    LET e1 == RuleParserGetNextNonEmptyContext(e)
    IN  IF ~RuleParserIsAtEnd(e1)
        THEN LET r == RuleParserGenerateTarget(e1)
             IN  [r EXCEPT !.s.is_at_end = FALSE]
        ELSE Done(e1)

\* Mutant: every move_to_next pulls the next context.
RuleParserMoveToNextFirstTargetOnly(e) ==
    IF RuleParserIsAtStart(e) THEN RuleParserGetNextTarget(e)
    ELSE IF RuleParserIsAtEnd(e)
    THEN RuleParserGenerateTarget([e EXCEPT !.index = @ + 1])
    ELSE RuleParserGetNextTarget([e EXCEPT !.index = 0])

RuleParserMoveToNext(e) ==
    IF RuleParserIsAtStart(e) THEN RuleParserGetNextTarget(e)
    ELSE IF e.index + 1 # RuleParserCurrentLength(e)
    THEN RuleParserGenerateTarget([e EXCEPT !.index = @ + 1])
    ELSE RuleParserGetNextTarget([e EXCEPT !.index = 0])

\* ------------------------------------------------ PriorityMakefileLocator
\* A directory tree is a sequence of directories, the first one the root:
\* parent is the place of the parent directory in the sequence (0 for the
\* root) and files the names of the files of the directory, in the order the
\* file system lists them. A Makefile descriptor is the pair of its directory
\* and its file name.
NoName == "None"

\* _setup and set_filename_priorities: the dict of the names of the list; a
\* name listed again takes the lower number.
SetFilenamePriorities(filenames) ==
    [name \in {filenames[i] : i \in 1 .. Len(filenames)} |->
        Len(filenames) - SetMax({i \in 1 .. Len(filenames) : filenames[i] = name}) + 1]

\* Mutant: the name with the lowest number wins.
BestNameLoopLowest(priorities, filenames, best_name, best_priority) ==
    LET listed == {i \in 1 .. Len(filenames) : filenames[i] \in DOMAIN priorities}
    IN  IF listed = {} THEN best_name
        ELSE filenames[CHOOSE i \in listed :
                            \A j \in listed : priorities[filenames[i]] <= priorities[filenames[j]]]

\* The loop of _get_best_name over the names not yet looked at.
RECURSIVE BestNameLoop(_, _, _, _)
BestNameLoop(priorities, filenames, best_name, best_priority) ==
    IF filenames = <<>> THEN best_name
    ELSE LET name == Head(filenames)
         IN  IF name \in DOMAIN priorities /\ best_priority < priorities[name]
             THEN BestNameLoop(priorities, Tail(filenames), name, priorities[name])
             ELSE BestNameLoop(priorities, Tail(filenames), best_name, best_priority)

\* Mutant: best_name starts as the first file of the directory.
GetBestNameFirstFile(priorities, filenames) ==
    IF filenames = <<>> THEN NoName
    ELSE BestNameLoop(priorities, filenames, Head(filenames), 0)

GetBestName(priorities, filenames) == BestNameLoop(priorities, filenames, NoName, 0)

MakeWithExecPath(dirpath, name) == [exec_path |-> dirpath, file_path |-> name]

\* The subdirectories of a directory, in the order the walk takes them.
RECURSIVE DirNames(_, _, _)
DirNames(tree, dirpath, from) ==
    IF from > Len(tree) THEN <<>>
    ELSE IF tree[from].parent = dirpath THEN <<from>> \o DirNames(tree, dirpath, from + 1)
    ELSE DirNames(tree, dirpath, from + 1)

\* os.scandir(directory_path): the files and the subdirectories.
ScanDir(tree, dirpath) ==
    [i \in 1 .. Len(tree[dirpath].files) |-> [name |-> tree[dirpath].files[i], is_file |-> TRUE]]
        \o [i \in 1 .. Len(DirNames(tree, dirpath, 1)) |->
                [name |-> "directory", is_file |-> FALSE]]

\* BaseMakefileLocator.Context.__enter__: the list the ListIterator is made of.
BaseEnter(priorities, tree) ==
    LET entries == ScanDir(tree, 1)
        filenames == SelectSeq(entries, LAMBDA entry : entry.is_file)
        name == GetBestName(priorities, [i \in 1 .. Len(filenames) |-> filenames[i].name])
    IN  IF name # NoName THEN <<MakeWithExecPath(1, name)>> ELSE <<>>

\* Mutant: a directory with no makefile keeps its subdirectories in the walk.
WalkNoPrune(priorities, tree, pending, first_directory, list_) ==
    LET order == [i \in 1 .. Len(tree) |-> i]
        found == SelectSeq(order, LAMBDA d : d # 1 /\ GetBestName(priorities, tree[d].files) # NoName)
    IN  [i \in 1 .. Len(found) |->
            MakeWithExecPath(found[i], GetBestName(priorities, tree[found[i]].files))]

\* The loop of NestedMakefileLocator.Context.__enter__ over os.walk, top-down:
\* pending holds the directories the walk has still to yield, the
\* subdirectories of a directory coming before the directories after it.
RECURSIVE Walk(_, _, _, _, _)
Walk(priorities, tree, pending, first_directory, list_) ==
    IF pending = <<>> THEN list_
    ELSE LET dirpath == Head(pending)
             name == GetBestName(priorities, tree[dirpath].files)
             dirnames == IF name # NoName THEN DirNames(tree, dirpath, 1) ELSE <<>>
             appended == IF name # NoName /\ ~first_directory
                         THEN Append(list_, MakeWithExecPath(dirpath, name))
                         ELSE list_
         IN  Walk(priorities, tree, dirnames \o Tail(pending), FALSE, appended)

NestedEnter(priorities, tree) == Walk(priorities, tree, <<1>>, TRUE, <<>>)

\* ------------------------------------------------ the Iterator interface
Locators == {"BaseMakefileLocator", "NestedMakefileLocator"}

\* The classes whose iterator is a ListIterator.
ListKinds == {"ListIterator"} \cup Locators

IterKinds == {"ListIterator", "IteratorConcatenator", "TokenSourceToIteratorAdapter",
              "TokenToCharIterator", "MakefileRuleParserToIteratorAdapter"} \cup Locators

IterHasCurrentItem(k, s) ==
    CASE k \in ListKinds -> ListHasCurrentItem(s)
      [] k = "IteratorConcatenator" -> ConcatHasCurrentItem(s)
      [] k = "TokenSourceToIteratorAdapter" -> TokenSourceHasCurrentItem(s)
      [] k = "TokenToCharIterator" -> TokenToCharHasCurrentItem(s)
      [] k = "MakefileRuleParserToIteratorAdapter" -> RuleParserHasCurrentItem(s)

IterIsAtStart(k, s) ==
    CASE k \in ListKinds -> ListIsAtStart(s)
      [] k = "IteratorConcatenator" -> ConcatIsAtStart(s)
      [] k = "TokenSourceToIteratorAdapter" -> TokenSourceIsAtStart(s)
      [] k = "TokenToCharIterator" -> TokenToCharIsAtStart(s)
      [] k = "MakefileRuleParserToIteratorAdapter" -> RuleParserIsAtStart(s)

IterIsAtEnd(k, s) ==
    CASE k \in ListKinds -> ListIsAtEnd(s)
      [] k = "IteratorConcatenator" -> ConcatIsAtEnd(s)
      [] k = "TokenSourceToIteratorAdapter" -> TokenSourceIsAtEnd(s)
      [] k = "TokenToCharIterator" -> TokenToCharIsAtEnd(s)
      [] k = "MakefileRuleParserToIteratorAdapter" -> RuleParserIsAtEnd(s)

IterMoveToNext(k, s) ==
    CASE k \in ListKinds -> ListMoveToNext(s)
      [] k = "IteratorConcatenator" -> ConcatMoveToNext(s)
      [] k = "TokenSourceToIteratorAdapter" -> TokenSourceMoveToNext(s)
      [] k = "TokenToCharIterator" -> TokenToCharMoveToNext(s)
      [] k = "MakefileRuleParserToIteratorAdapter" -> RuleParserMoveToNext(s)

\* The _index field of the iterator, where it has one.
IterIndex(k, s) ==
    IF k \in {"TokenToCharIterator", "MakefileRuleParserToIteratorAdapter"} THEN s.index ELSE 0

\* Iterator.move_to_end: while not self.is_at_end: self.move_to_next(). The
\* loop does not return (diverged) when _index grows without reaching E.
RECURSIVE BaseMoveToEnd(_, _)
BaseMoveToEnd(k, s) ==
    IF IterIsAtEnd(k, s) THEN [s |-> s, raised |-> FALSE, diverged |-> FALSE]
    ELSE IF IterIndex(k, s) >= MaxIndex THEN [s |-> s, raised |-> FALSE, diverged |-> TRUE]
    ELSE LET r == IterMoveToNext(k, s)
         IN  IF r.raised THEN [s |-> r.s, raised |-> TRUE, diverged |-> FALSE]
             ELSE BaseMoveToEnd(k, r.s)

IterMoveToEnd(k, s) ==
    IF k \in ListKinds
    THEN [s |-> ListMoveToEnd(s).s, raised |-> FALSE, diverged |-> FALSE]
    ELSE BaseMoveToEnd(k, s)

\* current_item, in state I. [item |-> it, raised |-> whether reading it raised]
IterCurrentItem(k, s) ==
    CASE k \in ListKinds -> [item |-> ListCurrentItem(s), raised |-> FALSE]
      [] k = "IteratorConcatenator" -> [item |-> ConcatCurrentItem(s), raised |-> FALSE]
      [] k = "TokenSourceToIteratorAdapter" -> [item |-> TokenSourceCurrentItem(s), raised |-> FALSE]
      [] k = "TokenToCharIterator" ->
            IF s.index < Len(s.text) THEN [item |-> TokenToCharCurrentItem(s), raised |-> FALSE]
            ELSE [item |-> "None", raised |-> TRUE]
      [] k = "MakefileRuleParserToIteratorAdapter" ->
            [item |-> RuleParserCurrentItem(s), raised |-> FALSE]

\* ---------------------------------------------------- PythonIteratorWrapper
\* __next__ over the iterator s of class k: [s |-> the iterator after the
\* call, raised |-> an exception other than StopIteration, stop |-> whether
\* StopIteration was raised, result |-> the item returned]
PythonStop(s) == [s |-> s, raised |-> FALSE, stop |-> TRUE, result |-> "None"]

\* Mutant: the iterator is moved without a look at is_at_end first.
PythonNextAlwaysMove(k, s) ==
    LET r == IterMoveToNext(k, s)
    IN  IF r.raised THEN [s |-> r.s, raised |-> TRUE, stop |-> FALSE, result |-> "None"]
        ELSE IF ~IterIsAtEnd(k, r.s)
        THEN LET c == IterCurrentItem(k, r.s)
             IN  [s |-> r.s, raised |-> c.raised, stop |-> FALSE, result |-> c.item]
        ELSE PythonStop(r.s)

PythonNext(k, s) ==
    IF ~IterIsAtEnd(k, s)
    THEN LET r == IterMoveToNext(k, s)
         IN  IF r.raised THEN [s |-> r.s, raised |-> TRUE, stop |-> FALSE, result |-> "None"]
             ELSE IF ~IterIsAtEnd(k, r.s)
             THEN LET c == IterCurrentItem(k, r.s)
                  IN  [s |-> r.s, raised |-> c.raised, stop |-> FALSE, result |-> c.item]
             ELSE PythonStop(r.s)
    ELSE PythonStop(s)

\* -------------------------------------------------------------- the inputs
\* The items of an input all differ (an iterator never inspects an item), so
\* an item yielded at a wrong place is a wrong item: item n is the number n.
RECURSIVE Offset(_, _)
Offset(lens, i) == IF i = 0 THEN 0 ELSE Offset(lens, i - 1) + lens[i]

InnerLists ==
    UNION {{[i \in 1 .. n |-> [j \in 1 .. lens[i] |-> Offset(lens, i - 1) + j]] :
                lens \in [1 .. n -> 0 .. MaxItems]} : n \in 0 .. MaxInner}

RECURSIVE Flatten(_)
Flatten(ll) == IF ll = <<>> THEN <<>> ELSE Head(ll) \o Flatten(Tail(ll))

ItemLists == {[j \in 1 .. n |-> j] : n \in 0 .. (MaxItems + 1)}

TokenToCharTokens ==
    {TextToken(<<>>), TextToken(<<"a">>), TextToken(<<"b", "c">>), MakeToken(TokenEOF)}

TokenLists == UNION {[1 .. n -> TokenToCharTokens] : n \in 0 .. MaxInner}

Declarations == UNION {[1 .. n -> 0 .. MaxTargets] : n \in 0 .. MaxDecls}

FileNames == {"GNUmakefile", "Makefile"}

\* The names a priority list can hold: those of files, and one no file has.
ListedNames == FileNames \cup {"does_not_exist"}

PriorityLists == UNION {[1 .. n -> ListedNames] : n \in 0 .. MaxNames}

\* What a directory can hold: no file, one file, or two in either order of
\* listing.
Listings == {<<>>, <<"Makefile">>,
             <<"GNUmakefile", "Makefile">>, <<"Makefile", "GNUmakefile">>}

Trees ==
    UNION {{[d \in 1 .. n |-> [parent |-> up[d], files |-> files[d]]] :
                up \in {f \in [1 .. n -> 0 .. n] : \A d \in 1 .. n : f[d] < d /\ (d > 1 => f[d] >= 1)},
                files \in [1 .. n -> Listings]} : n \in 1 .. MaxDirs}

LocatorInputs == [filenames : PriorityLists, tree : Trees]

IterInputs(k) ==
    CASE k = "ListIterator" -> ItemLists
      [] k = "BaseMakefileLocator" -> {in \in LocatorInputs : Len(in.tree) <= 2}
      [] k = "NestedMakefileLocator" -> LocatorInputs
      [] k = "IteratorConcatenator" -> InnerLists
      [] k = "TokenSourceToIteratorAdapter" -> {t \in TokenSources : t[Len(t)] = MakeToken(TokenEOF)}
      [] k = "TokenToCharIterator" -> TokenLists
      [] k = "MakefileRuleParserToIteratorAdapter" -> Declarations

\* The iterators make() can return over an input: a source iterator is handed
\* over in state S, or moved once.
Moved(l) == {l, ListMoveToNext(l).s}

IterMake(k, in) ==
    CASE k = "ListIterator" -> {ListMake(in)}
      [] k = "BaseMakefileLocator" ->
            {ListMake(BaseEnter(SetFilenamePriorities(in.filenames), in.tree))}
      [] k = "NestedMakefileLocator" ->
            {ListMake(NestedEnter(SetFilenamePriorities(in.filenames), in.tree))}
      [] k = "IteratorConcatenator" ->
            {ConcatSetup(src) : src \in Moved(ListMake([i \in 1 .. Len(in) |-> ListMake(in[i])]))}
      [] k = "TokenSourceToIteratorAdapter" -> {TokenSourceSetup}
      [] k = "TokenToCharIterator" -> {TokenToCharSetup(src) : src \in Moved(ListMake(in))}
      [] k = "MakefileRuleParserToIteratorAdapter" -> {RuleParserToS, FactoryTargetIterator}

\* ------------------------------------------------------------- the actions
NoIterCall == [op |-> "none", raised |-> FALSE, pre |-> <<>>]

IterIdle == call.op = "none"

IterInit ==
    /\ kind \in IterKinds
    /\ input \in IterInputs(kind)
    /\ iter \in IterMake(kind, input)
    /\ call = NoIterCall
    /\ StreamOff
    /\ FilterOff
    /\ TextOff

IterMoveToNextAct ==
    /\ IterIdle
    /\ IterIndex(kind, iter) < MaxIndex
    /\ LET r == IterMoveToNext(kind, iter)
       IN  /\ iter' = r.s
           /\ call' = [op |-> "move_to_next", raised |-> r.raised, pre |-> iter]
    /\ UNCHANGED <<streamVars, filterVars, textVars, kind, input>>

IterMoveToEndAct ==
    /\ IterIdle
    /\ LET r == IterMoveToEnd(kind, iter)
       IN  /\ ~r.diverged
           /\ iter' = r.s
           /\ call' = [op |-> "move_to_end", raised |-> r.raised, pre |-> iter]
    /\ UNCHANGED <<streamVars, filterVars, textVars, kind, input>>

\* next() on a PythonIteratorWrapper made over the iterator, as a for loop
\* over the iterator issues it.
IterPythonNextAct ==
    /\ IterIdle
    /\ IterIndex(kind, iter) < MaxIndex
    /\ LET r == PythonNext(kind, iter)
       IN  /\ iter' = r.s
           /\ call' = [op |-> "__next__", raised |-> r.raised, pre |-> iter,
                       stop |-> r.stop, result |-> r.result]
    /\ UNCHANGED <<streamVars, filterVars, textVars, kind, input>>

IterReturnAct ==
    /\ ~IterIdle
    /\ call.op # "new"
    /\ call' = NoIterCall
    /\ UNCHANGED <<streamVars, filterVars, textVars, kind, input, iter>>

IterNext ==
    \/ IterMoveToNextAct
    \/ IterMoveToEndAct
    \/ IterPythonNextAct
    \/ IterReturnAct

IterSpec == IterInit /\ [][IterNext]_vars

ExactlyOne(a, b, c) == (a /\ ~b /\ ~c) \/ (~a /\ b /\ ~c) \/ (~a /\ ~b /\ c)

ConcatRemaining(c) == Flatten([i \in 1 .. Len(c.source.list) |-> c.source.list[i].list])

\* C16: an IteratorConcatenator over inner iterators in state S yields the
\* concatenation of their items, in order, skipping empty inner iterators:
\* its first item is the first item of the concatenation, move_to_next leads
\* from an item to the next one and from the last one to E; whenever it has a
\* current item so has its current inner iterator; and it is in E exactly
\* when its source is exhausted.
C16_Concatenation ==
    kind = "IteratorConcatenator" =>
        LET flat == Flatten(input)
        IN  /\ ConcatHasCurrentItem(iter) =>
                    /\ iter.has_current_iterator
                    /\ ListHasCurrentItem(ConcatCurrentIterator(iter))
                    /\ ConcatRemaining(iter) = SubSeq(flat, ConcatCurrentItem(iter), Len(flat))
            /\ ConcatIsAtStart(iter) => ConcatRemaining(iter) = flat
            /\ ConcatIsAtEnd(iter) <=> (~ConcatIsAtStart(iter) /\ iter.source.list = <<>>)
            /\ (call.op = "move_to_next" /\ ConcatIsAtStart(call.pre)) =>
                    IF flat = <<>> THEN ConcatIsAtEnd(iter)
                    ELSE ConcatHasCurrentItem(iter) /\ ConcatCurrentItem(iter) = flat[1]
            /\ (call.op = "move_to_next" /\ ConcatHasCurrentItem(call.pre)) =>
                    /\ ~call.raised
                    /\ IF ConcatCurrentItem(call.pre) < Len(flat)
                       THEN /\ ConcatHasCurrentItem(iter)
                            /\ ConcatCurrentItem(iter) = flat[ConcatCurrentItem(call.pre) + 1]
                       ELSE ConcatIsAtEnd(iter)

\* move_to_next has gone from the last item of an inner iterator over an empty
\* inner iterator to the first item of the one after it.
C16_Witness ==
    /\ kind = "IteratorConcatenator"
    /\ call.op = "move_to_next"
    /\ ConcatHasCurrentItem(call.pre)
    /\ ConcatHasCurrentItem(iter)
    /\ Len(call.pre.source.list) - Len(iter.source.list) >= 2

\* ================================================== the line conditions
\* The Condition classes of autorecurse.gnumake.grammar.filter. The content of
\* a Line is a sequence of characters.

MaxLines == 4     \* lines of an input

FS_START_LINE == <<"#", " ", "F", "i", "l", "e", "s">>
FS_END_LINE == <<"#", " ", "f", "i", "l", "e", "s", " ", "h", "a", "s", "h", "-", "t", "a", "b", "l", "e", " ", "s", "t", "a", "t", "s", ":">>
DB_START_LINE == <<"#", " ", "P", "a", "t", "t", "e", "r", "n", "-", "s", "p", "e", "c", "i", "f", "i", "c", " ", "V", "a", "r", "i", "a", "b", "l", "e", " ", "V", "a", "l", "u", "e", "s">>

\* -------------------------------------------------------- FileSectionFilter
FS_NO_PRINTING == 0
FS_PRINTING == 1
FS_BEFORE_PRINTING == 2
FS_FINISHED == 3

FS_START == 0
FS_END == 1
FS_LINE == 2

FS_TRANSITIONS ==
    (<<FS_NO_PRINTING, FS_START>> :> FS_BEFORE_PRINTING)
    @@ (<<FS_PRINTING, FS_START>> :> FS_PRINTING)
    @@ (<<FS_BEFORE_PRINTING, FS_START>> :> FS_PRINTING)
    @@ (<<FS_FINISHED, FS_START>> :> FS_FINISHED)
    @@ (<<FS_NO_PRINTING, FS_END>> :> FS_NO_PRINTING)
    @@ (<<FS_PRINTING, FS_END>> :> FS_FINISHED)
    @@ (<<FS_BEFORE_PRINTING, FS_END>> :> FS_NO_PRINTING)
    @@ (<<FS_FINISHED, FS_END>> :> FS_FINISHED)
    @@ (<<FS_NO_PRINTING, FS_LINE>> :> FS_NO_PRINTING)
    @@ (<<FS_PRINTING, FS_LINE>> :> FS_PRINTING)
    @@ (<<FS_BEFORE_PRINTING, FS_LINE>> :> FS_PRINTING)
    @@ (<<FS_FINISHED, FS_LINE>> :> FS_FINISHED)

\* Mutant: a start line reopens a finished filter.
FileSectionDoTransitionReopen(state, transition_label) ==
    IF state = FS_FINISHED /\ transition_label = FS_START THEN FS_BEFORE_PRINTING
    ELSE FS_TRANSITIONS[<<state, transition_label>>]

FileSectionDoTransition(state, transition_label) == FS_TRANSITIONS[<<state, transition_label>>]

FileSectionSetCurrentItem(state, value) ==
    IF value = FS_START_LINE THEN FileSectionDoTransition(state, FS_START)
    ELSE IF value = FS_END_LINE THEN FileSectionDoTransition(state, FS_END)
    ELSE FileSectionDoTransition(state, FS_LINE)

\* Mutant: the armed state forwards as well.
FileSectionConditionArmed(state) == state \in {FS_PRINTING, FS_BEFORE_PRINTING}

FileSectionCondition(state) == state = FS_PRINTING

\* ---------------------------------------------------- DatabaseSectionFilter
DB_NO_PRINTING == 0
DB_PRINTING == 1

DB_START == 0
DB_LINE == 1

DB_TRANSITIONS ==
    (<<DB_NO_PRINTING, DB_START>> :> DB_PRINTING)
    @@ (<<DB_PRINTING, DB_START>> :> DB_PRINTING)
    @@ (<<DB_NO_PRINTING, DB_LINE>> :> DB_NO_PRINTING)
    @@ (<<DB_PRINTING, DB_LINE>> :> DB_PRINTING)

\* Mutant: a line that is not the start line stops the printing.
DatabaseDoTransitionReset(state, transition_label) ==
    IF transition_label = DB_LINE THEN DB_NO_PRINTING ELSE DB_PRINTING

DatabaseDoTransition(state, transition_label) == DB_TRANSITIONS[<<state, transition_label>>]

DatabaseSetCurrentItem(state, value) ==
    IF value = DB_START_LINE THEN DatabaseDoTransition(state, DB_START)
    ELSE DatabaseDoTransition(state, DB_LINE)

\* Mutant: the condition holds in every state.
DatabaseConditionAlways(state) == state \in {DB_NO_PRINTING, DB_PRINTING}

DatabaseCondition(state) == state = DB_PRINTING

\* ------------------------------------------------ InformationalCommentFilter
\* Mutant: the expression is ^# , with one space.
InformationalMatchOneSpace(content) ==
    /\ Len(content) >= 2
    /\ content[1] = "#"
    /\ content[2] = " "

\* _INFORMATIONAL_RE.match(content): the content starts with "#  ".
InformationalMatch(content) ==
    /\ Len(content) >= 3
    /\ content[1] = "#"
    /\ content[2] = " "
    /\ content[3] = " "

\* Mutant: a line that does not match flips _printing.
InformationalSetCurrentItemFlip(printing, value) ==
    IF InformationalMatch(value) THEN FALSE ELSE ~printing

InformationalSetCurrentItem(printing, value) ==
    IF InformationalMatch(value) THEN FALSE ELSE TRUE

InformationalCondition(printing) == printing

\* ------------------------------------------------------------ Condition
Conditions == {"DatabaseSectionFilter", "FileSectionFilter", "InformationalCommentFilter"}

\* make(): the state of a fresh instance.
CondMake(c) ==
    CASE c = "DatabaseSectionFilter" -> DB_NO_PRINTING
      [] c = "FileSectionFilter" -> FS_NO_PRINTING
      [] c = "InformationalCommentFilter" -> TRUE

\* condition.current_item = value
CondSetCurrentItem(c, state, value) ==
    CASE c = "DatabaseSectionFilter" -> DatabaseSetCurrentItem(state, value)
      [] c = "FileSectionFilter" -> FileSectionSetCurrentItem(state, value)
      [] c = "InformationalCommentFilter" -> InformationalSetCurrentItem(state, value)

\* condition.condition
CondCondition(c, state) ==
    CASE c = "DatabaseSectionFilter" -> DatabaseCondition(state)
      [] c = "FileSectionFilter" -> FileSectionCondition(state)
      [] c = "InformationalCommentFilter" -> InformationalCondition(state)

\* ------------------------------------------------------- ConditionFilter
\* An instance in use: its state and, for every item it was shown, the state
\* the item left it in (trace).
Fresh(c) == [state |-> CondMake(c), trace |-> <<>>]

\* The filter shows the item to the condition, then reads its verdict.
Show(c, inst, value) ==
    LET st == CondSetCurrentItem(c, inst.state, value)
    IN  [state |-> st, trace |-> Append(inst.trace, st)]

\* Whether the i-th item shown was forwarded.
Verdict(c, inst, i) == CondCondition(c, inst.trace[i])

\* The state the i-th item shown found the instance in.
StateBefore(c, inst, i) == IF i = 1 THEN CondMake(c) ELSE inst.trace[i - 1]

\* The items forwarded, of the items shown so far.
RECURSIVE Kept(_, _, _, _)
Kept(c, inst, items, n) ==
    IF n = 0 THEN <<>>
    ELSE IF Verdict(c, inst, n) THEN Append(Kept(c, inst, items, n - 1), items[n])
    ELSE Kept(c, inst, items, n - 1)

\* Factory.make_target_iterator_for_file: the ConditionFilter of a
\* DatabaseSectionFilter is the source of the one of a FileSectionFilter.
FactoryPipeline == "DatabaseSectionFilter, FileSectionFilter"

Pipelines == Conditions \cup {FactoryPipeline}

FirstCond == IF cond = FactoryPipeline THEN "DatabaseSectionFilter" ELSE cond

SecondCond == IF cond = FactoryPipeline THEN "FileSectionFilter" ELSE cond

Out1 == Kept(FirstCond, first, lines, fed)
Out2 == Kept(SecondCond, second, Out1, Len(Out1))

LineSet == {FS_START_LINE, FS_END_LINE, DB_START_LINE,
            <<"#", " ", " ", "x">>, <<"#", " ", "x">>, <<"x">>}

FilterInit ==
    /\ cond \in Pipelines
    /\ lines \in UNION {[1 .. n -> LineSet] : n \in 0 .. MaxLines}
    /\ fed = 0
    /\ first = Fresh(FirstCond)
    /\ second = Fresh(SecondCond)
    /\ StreamOff
    /\ IterOff
    /\ TextOff

\* The next line of the input goes through the first filter and, when that one
\* forwards it, through the second.
FeedAct ==
    /\ fed < Len(lines)
    /\ fed' = fed + 1
    /\ first' = Show(FirstCond, first, lines[fed + 1])
    /\ second' = IF CondCondition(FirstCond, first'.state)
                 THEN Show(SecondCond, second, lines[fed + 1])
                 ELSE second
    /\ UNCHANGED <<streamVars, iterVars, textVars, cond, lines>>

FilterNext == FeedAct

FilterSpec == FilterInit /\ [][FilterNext]_vars

\* The lines of the input shown so far, by index.
Shown == 1 .. fed

\* C17: the database-section filter forwards a line iff a line equal to
\* "# Pattern-specific Variable Values" occurs at or before it in the input:
\* the anchor line is forwarded, every line before the first anchor is
\* dropped, and the filter is in its printing state from the first anchor on.
C17_DatabaseSection ==
    cond = "DatabaseSectionFilter" =>
        /\ \A j \in Shown :
                Verdict(cond, first, j) <=> \E i \in 1 .. j : lines[i] = DB_START_LINE
        /\ \A j \in Shown :
                StateBefore(cond, first, j) = DB_PRINTING => first.trace[j] = DB_PRINTING
        /\ first.state = DB_PRINTING <=> \E i \in Shown : lines[i] = DB_START_LINE

\* The filter has dropped a line, forwarded an anchor and forwarded a line
\* after it that is no anchor.
C17_Witness ==
    /\ cond = "DatabaseSectionFilter"
    /\ fed >= 3
    /\ lines[1] # DB_START_LINE
    /\ lines[2] = DB_START_LINE
    /\ lines[3] # DB_START_LINE
    /\ Out1 = <<lines[2], lines[3]>>

\* C18, as claimed: once the file-section filter has received a line equal to
\* "# files hash-table stats:", it forwards no later line.
C18_Original ==
    cond = "FileSectionFilter" =>
        \A i \in Shown : lines[i] = FS_END_LINE =>
            \A j \in (i + 1) .. fed : ~Verdict(cond, first, j)

\* C18, amended: once the file-section filter has received the end anchor
\* while printing (state Y), it is finished: it forwards no later line,
\* whatever follows, a "# Files" line included. An end anchor received in
\* state N or B leaves it in N, where a later "# Files" line arms it again.
C18_FileSectionClosed ==
    cond = "FileSectionFilter" =>
        /\ \A i \in Shown :
                (lines[i] = FS_END_LINE /\ StateBefore(cond, first, i) = FS_PRINTING) =>
                    \A j \in i .. fed : first.trace[j] = FS_FINISHED /\ ~Verdict(cond, first, j)
        /\ \A i \in Shown :
                (lines[i] = FS_END_LINE /\ StateBefore(cond, first, i) \in {FS_NO_PRINTING, FS_BEFORE_PRINTING}) =>
                    first.trace[i] = FS_NO_PRINTING
        /\ first.state = FS_FINISHED <=>
                \E i \in Shown : lines[i] = FS_END_LINE /\ StateBefore(cond, first, i) = FS_PRINTING

\* The filter has forwarded a line, received the end anchor and then a
\* "# Files" line, which it has not forwarded.
C18_Witness ==
    /\ cond = "FileSectionFilter"
    /\ fed = 4
    /\ lines[1] = FS_START_LINE
    /\ Verdict(cond, first, 2)
    /\ lines[3] = FS_END_LINE
    /\ lines[4] = FS_START_LINE
    /\ first.state = FS_FINISHED
    /\ Out1 = <<lines[2]>>

\* C19, as claimed: the file-section filter forwards no line equal to
\* "# Files" and no line equal to "# files hash-table stats:".
C19_Original ==
    cond = "FileSectionFilter" =>
        \A j \in Shown :
            Verdict(cond, first, j) => (lines[j] # FS_START_LINE /\ lines[j] # FS_END_LINE)

\* C19, amended: the file-section filter never forwards the end anchor, nor
\* the "# Files" line that arms it (the one received in state N); a "# Files"
\* line received in state B or Y is forwarded like any other line; and every
\* forwarded line comes after a "# Files" line with no end anchor from that
\* line up to it.
C19_Boundaries ==
    cond = "FileSectionFilter" =>
        \A j \in Shown :
            /\ Verdict(cond, first, j) => lines[j] # FS_END_LINE
            /\ lines[j] = FS_START_LINE =>
                    (Verdict(cond, first, j) <=>
                        StateBefore(cond, first, j) \in {FS_BEFORE_PRINTING, FS_PRINTING})
            /\ Verdict(cond, first, j) =>
                    \E i \in 1 .. (j - 1) :
                        /\ lines[i] = FS_START_LINE
                        /\ ~Verdict(cond, first, i)
                        /\ \A k \in i .. j : lines[k] # FS_END_LINE

\* The filter has dropped the "# Files" line that armed it, forwarded a second
\* one and dropped the end anchor.
C19_Witness ==
    /\ cond = "FileSectionFilter"
    /\ fed >= 3
    /\ lines[1] = FS_START_LINE
    /\ lines[2] = FS_START_LINE
    /\ lines[3] = FS_END_LINE
    /\ Out1 = <<FS_START_LINE>>

\* C20, as claimed: for each of the three filters, the output of a fresh
\* instance fed to a second fresh instance comes out as it went in.
C20_Original ==
    cond \in Conditions => Out2 = Out1

\* C20, amended: for the database-section filter and the
\* informational-comment filter the second instance forwards every line the
\* first one forwards; the file-section filter is not idempotent: its second
\* instance never forwards the first line of the first one's output, and
\* forwards nothing when that output holds no "# Files" line.
C20_Idempotence ==
    /\ cond \in {"DatabaseSectionFilter", "InformationalCommentFilter"} => Out2 = Out1
    /\ cond = "FileSectionFilter" =>
            /\ Out1 # <<>> => (Out2 # Out1 /\ ~Verdict(cond, second, 1))
            /\ (\A i \in 1 .. Len(Out1) : Out1[i] # FS_START_LINE) => Out2 = <<>>

\* The informational-comment filter has dropped a line between two it has
\* forwarded, and the second instance has forwarded both.
C20_Witness ==
    /\ cond = "InformationalCommentFilter"
    /\ fed >= 3
    /\ Verdict(cond, first, 1)
    /\ ~Verdict(cond, first, 2)
    /\ Verdict(cond, first, 3)
    /\ Len(Out2) >= 2

\* The number of lines the first filter has forwarded of the first j lines:
\* the place of line j in what the second filter is shown.
Rank(j) == Len(Kept(FirstCond, first, lines, j))

\* Whether line j of the input comes out of the second filter.
Emitted(j) ==
    /\ Verdict(FirstCond, first, j)
    /\ Verdict(SecondCond, second, Rank(j))

\* C21: in the composition database-section filter -> file-section filter,
\* as long as no line equal to "# Pattern-specific Variable Values" has been
\* read, the file-section filter has been shown nothing and is in its initial
\* state N, whatever "# Files" lines were read; and the composition emits no
\* line that is not preceded by the database anchor.
C21_GatedFileSection ==
    cond = FactoryPipeline =>
        /\ (\A i \in Shown : lines[i] # DB_START_LINE) =>
                /\ second = Fresh("FileSectionFilter")
                /\ second.state = FS_NO_PRINTING
                /\ Out2 = <<>>
        /\ \A j \in Shown :
                Emitted(j) => \E i \in 1 .. (j - 1) : lines[i] = DB_START_LINE
        /\ \A j \in Shown :
                (\A i \in 1 .. j : lines[i] # DB_START_LINE) => ~Emitted(j)

\* A "# Files" line and a line after it were read before the database anchor
\* and came to nothing; after the anchor, the line that follows a second
\* "# Files" line is the only one emitted.
C21_Witness ==
    /\ cond = FactoryPipeline
    /\ fed = 4
    /\ lines[1] = FS_START_LINE
    /\ lines[2] = DB_START_LINE
    /\ lines[3] = FS_START_LINE
    /\ lines[4] = <<"x">>
    /\ first.trace[1] = DB_NO_PRINTING
    /\ Out1 = <<lines[2], lines[3], lines[4]>>
    /\ Out2 = <<lines[4]>>

\* The first three characters of a line, fewer when the line is shorter.
Prefix3(content) == SubSeq(content, 1, IF Len(content) < 3 THEN Len(content) ELSE 3)

\* C22: the informational-comment filter forwards a line iff the line does
\* not begin with a hash followed by two spaces; two equal lines get the same
\* verdict wherever they stand, so a comment with one space and a line that
\* follows a dropped comment are forwarded.
C22_InformationalLineLocal ==
    cond = "InformationalCommentFilter" =>
        /\ \A j \in Shown :
                Verdict(cond, first, j) <=> Prefix3(lines[j]) # <<"#", " ", " ">>
        /\ \A i, j \in Shown :
                lines[i] = lines[j] => (Verdict(cond, first, i) <=> Verdict(cond, first, j))
        /\ \A j \in Shown :
                lines[j] = <<"#", " ", "x">> => Verdict(cond, first, j)

\* The filter has dropped an informational comment, then forwarded a comment
\* with one space, then dropped the informational comment again.
C22_Witness ==
    /\ cond = "InformationalCommentFilter"
    /\ fed >= 3
    /\ lines[1] = <<"#", " ", " ", "x">>
    /\ lines[2] = <<"#", " ", "x">>
    /\ lines[3] = lines[1]
    /\ Out1 = <<lines[2]>>

\* ---------------------------------------------------- the target emitter
Emitter == "MakefileRuleParserToIteratorAdapter"

\* The targets an emitter of the given makefile is to produce over the input,
\* in order: rule by rule, and within a rule in the order of its header.
ExpectedTargets(makefile) ==
    Flatten([d \in 1 .. Len(input) |->
                [i \in 1 .. input[d] |->
                    [path |-> <<"target", d, i>>,
                     prerequisites |-> << <<"prerequisite", d>> >>,
                     order_only_prerequisites |-> << <<"order-only", d>> >>,
                     recipe_lines |-> << <<Alphabet[d]>>, <<Alphabet[d], "\t">> >>,
                     file |-> makefile]]])

\* The place of a target among the expected ones, 0 when it is none of them.
TargetRank(t, makefile) ==
    LET E == ExpectedTargets(makefile)
        at == {k \in 1 .. Len(E) : E[k] = t}
    IN  IF at = {} THEN 0 ELSE SetMin(at)

\* C23: the target emitter produces, for every rule with n >= 1 targets, n
\* consecutive Targets with the paths of the header in order, each with the
\* rule's prerequisites, order-only prerequisites and recipe lines and the
\* emitter's makefile; it asks the parser for the next declaration only when
\* the targets of the current rule are used up, and the rules come in the
\* order the parser yields them.
C23_FanOut ==
    kind = Emitter =>
        LET E == ExpectedTargets(iter.makefile)
        IN  /\ RuleParserHasCurrentItem(iter) => TargetRank(iter.target, iter.makefile) >= 1
            /\ (call.op = "move_to_next" /\ ~call.raised) =>
                    LET k == IF RuleParserIsAtStart(call.pre) THEN 0
                             ELSE TargetRank(call.pre.target, iter.makefile)
                    IN  /\ k < Len(E) =>
                            /\ RuleParserHasCurrentItem(iter)
                            /\ RuleParserCurrentItem(iter) = E[k + 1]
                            /\ (k >= 1 /\ E[k + 1].path[2] = E[k].path[2]) =>
                                    iter.asked = call.pre.asked
                            /\ (k = 0 \/ E[k + 1].path[2] # E[k].path[2]) =>
                                    iter.asked > call.pre.asked
                        /\ k = Len(E) => RuleParserIsAtEnd(iter)

\* The emitter has moved from the second target of a rule with two targets,
\* over a declaration with no rule, to the target of the next rule.
C23_Witness ==
    /\ kind = Emitter
    /\ Len(input) = 3
    /\ input[1] = 2
    /\ input[2] = 0
    /\ input[3] = 1
    /\ call.op = "move_to_next"
    /\ ~call.raised
    /\ call.pre.target.path = <<"target", 1, 2>>
    /\ call.pre.target.prerequisites = << <<"prerequisite", 1>> >>
    /\ iter.target.path = <<"target", 3, 1>>
    /\ iter.target.file = FactoryMakefile

\* Whether a move_to_next of emitter e asks the parser, and the parser has no
\* rule left: declaration() then raises ParseCancellationException.
CancelledFrom(e) ==
    /\ ~RuleParserIsAtEnd(e)
    /\ \/ RuleParserIsAtStart(e)
       \/ e.index + 1 = input[e.context]
    /\ \A d \in (e.pos + 1) .. Len(input) : input[d] = 0

\* C24: when the parser signals parse-cancelled during a move_to_next issued
\* in state S or I, the call returns normally with the emitter in state E,
\* its target, context and index cleared; the parser has then been asked once
\* for each declaration it had left and once more, and is not asked again.
C24_ParseCancelled ==
    kind = Emitter =>
        /\ (call.op = "move_to_next" /\ CancelledFrom(call.pre)) =>
                /\ ~call.raised
                /\ RuleParserIsAtEnd(iter)
                /\ ~RuleParserHasCurrentItem(iter)
                /\ iter.target = NoTarget
                /\ iter.context = 0
                /\ iter.index = 0
                /\ iter.asked = call.pre.asked + (Len(input) - call.pre.pos) + 1
        /\ (call.op # "none" /\ RuleParserIsAtEnd(call.pre)) => iter.asked = call.pre.asked
        /\ (call.op = "move_to_next" /\ RuleParserIsAtEnd(iter) /\ ~RuleParserIsAtEnd(call.pre)) =>
                CancelledFrom(call.pre)

\* The emitter, on the only target of a rule that two declarations with no
\* rule follow, has moved to E.
C24_Witness ==
    /\ kind = Emitter
    /\ input = <<1, 0, 0>>
    /\ call.op = "move_to_next"
    /\ ~call.raised
    /\ RuleParserHasCurrentItem(call.pre)
    /\ call.pre.asked = 1
    /\ iter.asked = 4
    /\ RuleParserIsAtEnd(iter)

\* ------------------------------------------------- the makefile locators
\* The names of the files of directory d of the tree.
Present(d) == {input.tree[d].files[i] : i \in 1 .. Len(input.tree[d].files)}

\* The places of the priority list that hold a name present in directory d.
PresentPlaces(d) == {i \in 1 .. Len(input.filenames) : input.filenames[i] \in Present(d)}

\* The first and the last place of a name in the priority list.
FirstPlace(name) == SetMin({i \in 1 .. Len(input.filenames) : input.filenames[i] = name})

LastPlace(name) == SetMax({i \in 1 .. Len(input.filenames) : input.filenames[i] = name})

\* The descriptors the iterator has still to yield, the current one included;
\* all of them in state S.
Descriptors == {iter.list[k] : k \in 1 .. Len(iter.list)}

\* C26, as claimed: of the listed filenames present in a directory, the
\* locator selects the one at the highest place of the priority list.
C26_Original ==
    kind \in Locators =>
        \A m \in Descriptors :
            /\ PresentPlaces(m.exec_path) # {}
            /\ m.file_path = input.filenames[SetMax(PresentPlaces(m.exec_path))]

\* C26, amended: a filename earlier in the priority list has the higher
\* priority, a name listed more than once counting at its last place: of the
\* listed filenames present in a directory, the locator selects the one whose
\* last place in the list comes first; with no name listed twice that is the
\* present name listed first.
C26_Priority ==
    kind \in Locators =>
        \A m \in Descriptors :
            /\ PresentPlaces(m.exec_path) # {}
            /\ m.file_path \in Present(m.exec_path)
            /\ \A i \in PresentPlaces(m.exec_path) :
                    LastPlace(m.file_path) <= LastPlace(input.filenames[i])
            /\ (\A i, j \in 1 .. Len(input.filenames) :
                    input.filenames[i] = input.filenames[j] => i = j) =>
                        m.file_path = input.filenames[SetMin(PresentPlaces(m.exec_path))]

\* With the list does_not_exist, Makefile, GNUmakefile, the flat locator over
\* a directory that holds both files is about to yield Makefile.
C26_Witness ==
    /\ kind = "BaseMakefileLocator"
    /\ input.filenames = <<"does_not_exist", "Makefile", "GNUmakefile">>
    /\ Present(1) = {"Makefile", "GNUmakefile"}
    /\ ListIsAtStart(iter)
    /\ iter.list = <<MakeWithExecPath(1, "Makefile")>>

\* C27: of the listed filenames present in a directory, the locator selects
\* the one that appears first in the priority list, and the flat locator
\* yields exactly one descriptor for the directory.
C27_TestedPriority ==
    kind \in Locators =>
        /\ \A m \in Descriptors :
                /\ PresentPlaces(m.exec_path) # {}
                /\ m.file_path = input.filenames[SetMin(PresentPlaces(m.exec_path))]
        /\ (kind = "BaseMakefileLocator" /\ ListIsAtStart(iter) /\ PresentPlaces(1) # {}) =>
                Len(iter.list) = 1

\* Whether directory d holds a file the priority list names.
Matches(d) == PresentPlaces(d) # {}

\* Whether every directory from the root down to d matches.
RECURSIVE PathMatches(_)
PathMatches(d) == IF d = 0 THEN TRUE ELSE Matches(d) /\ PathMatches(input.tree[d].parent)

\* C28: the nested locator yields a descriptor for directory D iff D is not
\* the root and every directory from the root down to D holds a file the
\* priority list names; it yields one descriptor for such a directory, naming
\* a listed file of that directory, and a directory comes after its parent.
C28_NestedPruning ==
    (kind = "NestedMakefileLocator" /\ ListIsAtStart(iter)) =>
        /\ \A d \in 1 .. Len(input.tree) :
                (\E m \in Descriptors : m.exec_path = d) <=> (d # 1 /\ PathMatches(d))
        /\ \A k, l \in 1 .. Len(iter.list) :
                iter.list[k].exec_path = iter.list[l].exec_path => k = l
        /\ \A k, l \in 1 .. Len(iter.list) :
                iter.list[k].exec_path = input.tree[iter.list[l].exec_path].parent => k < l
        /\ \A m \in Descriptors :
                \E i \in PresentPlaces(m.exec_path) : input.filenames[i] = m.file_path

\* A root with a Makefile, a first subdirectory with none and below it a
\* directory with a Makefile: the locator is about to yield nothing.
C28_Witness ==
    /\ kind = "NestedMakefileLocator"
    /\ input.filenames = <<"Makefile">>
    /\ Len(input.tree) = 3
    /\ input.tree[2].parent = 1
    /\ input.tree[3].parent = 2
    /\ Matches(1)
    /\ ~Matches(2)
    /\ Matches(3)
    /\ ListIsAtStart(iter)
    /\ iter.list = <<>>

\* The directories a locator looks at: the root for the flat one.
Scanned == IF kind = "BaseMakefileLocator" THEN {1} ELSE 1 .. Len(input.tree)

\* C29: with an empty priority list, or one none of whose names is present,
\* the iterator of the flat and of the nested locator is made in state S with
\* no descriptor, and its first move_to_next takes it to state E.
C29_NothingMatches ==
    (kind \in Locators /\ \A d \in Scanned : ~Matches(d)) =>
        /\ \A made \in IterMake(kind, input) : ListIsAtStart(made) /\ made.list = <<>>
        /\ iter.list = <<>>
        /\ ~ListHasCurrentItem(iter)
        /\ ListIsAtStart(iter) \/ ListIsAtEnd(iter)
        /\ (call.op = "move_to_next" /\ ListIsAtStart(call.pre)) =>
                (~call.raised /\ ListIsAtEnd(iter))

\* The nested locator with no priority list, over a tree whose directories
\* all hold files, has moved from S to E.
C29_Witness ==
    /\ kind = "NestedMakefileLocator"
    /\ input.filenames = <<>>
    /\ Len(input.tree) = 3
    /\ \A d \in 1 .. 3 : Present(d) # {}
    /\ call.op = "move_to_next"
    /\ ListIsAtStart(call.pre)
    /\ ListIsAtEnd(iter)

\* ----------------------------------------------------------------- Line
MaxText == 3      \* characters of a string

\* The characters of a string: a letter, a tab and two of the line boundaries
\* of str.splitlines().
TextChars == {"a", "\t", "\n", "\r"}

LineBoundaries == {"\n", "\r"}

\* str.splitlines(): the string is cut at every line boundary, "\r\n" being
\* one boundary; what follows the last boundary is a line only if it is not
\* empty.
RECURSIVE SplitLines(_)
SplitLines(content) ==
    LET at == {i \in 1 .. Len(content) : content[i] \in LineBoundaries}
    IN  IF content = <<>> THEN <<>>
        ELSE IF at = {} THEN <<content>>
        ELSE LET i == SetMin(at)
                 width == IF content[i] = "\r" /\ i < Len(content) /\ content[i + 1] = "\n"
                          THEN 2 ELSE 1
             IN  <<SubSeq(content, 1, i - 1)>>
                    \o SplitLines(SubSeq(content, i + width, Len(content)))

\* Mutant: the first line is taken, whatever follows it.
LineSetupFirstLine(content) ==
    LET lines_ == SplitLines(content)
    IN  IF Len(lines_) >= 1 THEN [raised |-> FALSE, content |-> lines_[1]]
        ELSE [raised |-> FALSE, content |-> <<>>]

\* Line.make(content): the content of the Line, or LineBreakError raised.
LineSetup(content) ==
    LET lines_ == SplitLines(content)
    IN  IF Len(lines_) = 1 THEN [raised |-> FALSE, content |-> lines_[1]]
        ELSE IF Len(lines_) = 0 THEN [raised |-> FALSE, content |-> <<>>]
        ELSE [raised |-> TRUE, content |-> <<>>]

\* ------------------------------------------------------------- the actions
Texts == UNION {[1 .. n -> TextChars] : n \in 0 .. MaxText}

NoTextCall == [op |-> "none", raised |-> FALSE, result |-> <<>>]

TextInit ==
    /\ string \in Texts
    /\ outcome = NoTextCall
    /\ StreamOff
    /\ IterOff
    /\ FilterOff

TrimRecipeLineAct ==
    /\ outcome.op = "none"
    /\ outcome' = [op |-> "_trim_recipe_line", raised |-> FALSE, result |-> TrimRecipeLine(string)]
    /\ UNCHANGED <<streamVars, iterVars, filterVars, string>>

LineMakeAct ==
    /\ outcome.op = "none"
    /\ outcome' = [op |-> "Line.make", raised |-> LineSetup(string).raised,
                result |-> LineSetup(string).content]
    /\ UNCHANGED <<streamVars, iterVars, filterVars, string>>

TextNext ==
    \/ TrimRecipeLineAct
    \/ LineMakeAct

TextSpec == TextInit /\ [][TextNext]_vars

\* The string without its last character.
Chop(t) == SubSeq(t, 1, Len(t) - 1)

EndsIn(t, ch) == Len(t) >= 1 /\ t[Len(t)] = ch

\* C25: _trim_recipe_line(T) is T with one trailing tab removed if T ends in a
\* tab, and then one trailing newline removed if what is left ends in a
\* newline; no other character is removed or changed, for every string T, the
\* empty one and the texts of one tab and of one newline included.
C25_TrimLaw ==
    outcome.op = "_trim_recipe_line" =>
        LET untabbed == IF EndsIn(string, "\t") THEN Chop(string) ELSE string
            trimmed == IF EndsIn(untabbed, "\n") THEN Chop(untabbed) ELSE untabbed
        IN  /\ ~outcome.raised
            /\ outcome.result = trimmed
            /\ Len(string) - Len(outcome.result) \in {0, 1, 2}
            /\ outcome.result = SubSeq(string, 1, Len(outcome.result))

\* The string of a newline and a tab after a letter has been trimmed to the
\* letter.
C25_Witness ==
    /\ outcome.op = "_trim_recipe_line"
    /\ string = <<"a", "\n", "\t">>
    /\ outcome.result = <<"a">>

\* The number of line breaks of a string, "\r\n" being one.
RECURSIVE LineBreakCount(_)
LineBreakCount(t) ==
    IF t = <<>> THEN 0
    ELSE IF Len(t) >= 2 /\ t[1] = "\r" /\ t[2] = "\n" THEN 1 + LineBreakCount(SubSeq(t, 3, Len(t)))
    ELSE IF t[1] \in LineBoundaries THEN 1 + LineBreakCount(Tail(t))
    ELSE LineBreakCount(Tail(t))

\* The string without the line terminator it ends in, if it ends in one.
WithoutTerminator(t) ==
    IF Len(t) >= 2 /\ t[Len(t) - 1] = "\r" /\ t[Len(t)] = "\n" THEN SubSeq(t, 1, Len(t) - 2)
    ELSE IF Len(t) >= 1 /\ t[Len(t)] \in LineBoundaries THEN Chop(t)
    ELSE t

\* C30, as claimed: the construction of a Line fails exactly for the texts
\* with more than one line break.
C30_Original ==
    outcome.op = "Line.make" => (outcome.raised <=> LineBreakCount(string) > 1)

\* C30, amended: the construction of a Line fails exactly for the texts in
\* which a character follows a line break: those with more than one line
\* break and those whose only line break is not at the end. On success the
\* content holds no line terminator: it is the string without the terminator
\* it ends in, the empty string for the empty string.
C30_MalformedLine ==
    outcome.op = "Line.make" =>
        /\ outcome.raised <=>
                \E i \in 1 .. Len(WithoutTerminator(string)) : string[i] \in LineBoundaries
        /\ LineBreakCount(string) > 1 => outcome.raised
        /\ ~outcome.raised =>
                /\ outcome.result = WithoutTerminator(string)
                /\ \A i \in 1 .. Len(outcome.result) : outcome.result[i] \notin LineBoundaries
                /\ string = <<>> => outcome.result = <<>>

\* The making of a Line has failed for a string with one line break, which
\* a letter follows.
C30_Witness ==
    /\ outcome.op = "Line.make"
    /\ string = <<"a", "\n", "a">>
    /\ LineBreakCount(string) = 1
    /\ outcome.raised
\* ============================================ the adapters, further claims

\* C32: the token stream adapter never moves its source past the first EOF
\* token: whatever the calls made, the source iterator has a current item at or
\* before its EOF token, a call made with the source on its EOF token leaves
\* it there, and a stream at its end has its source on the EOF token.
C32_SourceStaysOnEof ==
    variant = "token" =>
        /\ ItHasCurrentItem(stream)
        /\ stream.it <= TotalItems + 1
        /\ IsAtEnd(stream) => (stream.it = TotalItems + 1 /\ ItIsAtEofToken(stream))
        /\ (last.op # "none" /\ last.pre.it = TotalItems + 1) => stream.it = TotalItems + 1

\* consume on the last buffered token, the source already on its EOF token
\* and holding a token after it, has led to the end of the stream and left
\* the source where it was.
C32_Witness ==
    /\ variant = "token"
    /\ last.op = "consume"
    /\ IsI(last.pre)
    /\ ~HasMoreBuffer(last.pre)
    /\ last.pre.it = TotalItems + 1
    /\ IsAtEnd(stream)
    /\ stream.it = TotalItems + 1
    /\ Len(source) > TotalItems + 1

\* C33: a TokenSourceToIteratorAdapter yields the tokens nextToken returns,
\* each one and in order, the EOF token being the last item: its current item
\* is the token of the latest nextToken call; move_to_next in state S or on a
\* token other than EOF calls nextToken once and leads to I on the token
\* returned (never from S to E); it enters E only from its EOF token, with no
\* nextToken call; and nextToken is not called after it has returned the EOF
\* token.
C33_TokenSource ==
    kind = "TokenSourceToIteratorAdapter" =>
        /\ iter.pos <= Len(input)
        /\ TokenSourceHasCurrentItem(iter) =>
                (iter.pos >= 1 /\ TokenSourceCurrentItem(iter) = input[iter.pos])
        /\ TokenSourceIsAtStart(iter) => iter.pos = 0
        /\ TokenSourceIsAtEnd(iter) => iter.pos = Len(input)
        /\ (call.op = "move_to_next" /\ ~TokenSourceIsAtEnd(call.pre)) =>
                /\ ~call.raised
                /\ IF TokenSourceHasCurrentItem(call.pre)
                        /\ TokenSourceCurrentItem(call.pre).type = TokenEOF
                   THEN TokenSourceIsAtEnd(iter) /\ iter.pos = call.pre.pos
                   ELSE TokenSourceHasCurrentItem(iter) /\ iter.pos = call.pre.pos + 1

\* move_to_next on the EOF token, the last of three tokens, has led to E
\* without a further nextToken call.
C33_Witness ==
    /\ kind = "TokenSourceToIteratorAdapter"
    /\ call.op = "move_to_next"
    /\ TokenSourceHasCurrentItem(call.pre)
    /\ TokenSourceCurrentItem(call.pre).type = TokenEOF
    /\ call.pre.pos = 3
    /\ TokenSourceIsAtEnd(iter)
    /\ iter.pos = 3

\* The tokens of the source that precede its first EOF token (all of them
\* when it has none), and the characters of their texts up to token k.
TokensBeforeEof ==
    LET eofs == {i \in 1 .. Len(input) : input[i].type = TokenEOF}
    IN  IF eofs = {} THEN Len(input) ELSE SetMin(eofs) - 1

TextUpTo(k) == Flatten([i \in 1 .. k |-> input[i].text])

\* The token the source of a TokenToCharIterator is on, from 1, and the place
\* of its current character among the characters of all the texts.
SourcePlace(t) == Len(input) - Len(t.source.list) + 1

CharPlace(t) == Len(TextUpTo(SourcePlace(t) - 1)) + t.index + 1

\* C34, as claimed: a TokenToCharIterator yields the characters of the texts of the tokens
\* that precede the first EOF token of its source, each one and in order,
\* tokens with an empty text being skipped: whenever it has a current item,
\* that item is a character of the text of a token before the EOF token;
\* move_to_next leads from S to the first character, from a character to the
\* next one and from the last one to E (to E at once when there is none); and
\* a move_to_next made in E leaves the source where it is.
C34_TokenToChar ==
    kind = "TokenToCharIterator" =>
        LET chars == TextUpTo(TokensBeforeEof)
        IN  /\ TokenToCharHasCurrentItem(iter) =>
                    /\ ListHasCurrentItem(iter.source)
                    /\ SourcePlace(iter) <= TokensBeforeEof
                    /\ iter.text = input[SourcePlace(iter)].text
                    /\ iter.index < Len(iter.text)
                    /\ TokenToCharCurrentItem(iter) = chars[CharPlace(iter)]
            /\ (call.op = "move_to_next" /\ TokenToCharIsAtStart(call.pre)) =>
                    IF chars = <<>> THEN TokenToCharIsAtEnd(iter)
                    ELSE TokenToCharHasCurrentItem(iter) /\ CharPlace(iter) = 1
            /\ (call.op = "move_to_next" /\ TokenToCharHasCurrentItem(call.pre)) =>
                    IF CharPlace(call.pre) >= Len(chars) THEN TokenToCharIsAtEnd(iter)
                    ELSE /\ TokenToCharHasCurrentItem(iter)
                         /\ CharPlace(iter) = CharPlace(call.pre) + 1
            /\ (call.op = "move_to_next" /\ TokenToCharIsAtEnd(call.pre)) =>
                    (TokenToCharIsAtEnd(iter) /\ iter.source = call.pre.source)
            /\ TokenToCharIsAtEnd(iter) =>
                    IF TokensBeforeEof = Len(input) THEN ListIsAtEnd(iter.source)
                    ELSE SourcePlace(iter) = TokensBeforeEof + 1

\* The items a ListIterator or an IteratorConcatenator is made over, in the
\* order of iteration: item n is the number n.
ItemsInOrder == IF kind = "ListIterator" THEN input ELSE Flatten(input)

\* The items the iterator has not moved past, its current item included.
ItemsLeft ==
    IF kind = "ListIterator" THEN iter.list ELSE ConcatRemaining(iter)

\* C35: __next__ of a PythonIteratorWrapper returns the items of its iterator,
\* each one and in order (a call in state S the first one, a call on an item
\* the one after it), raises StopIteration when there is no further item and
\* on every call after that, and calls move_to_next on no iterator that is at
\* its end: such a call leaves the iterator as it is.
C35_PythonIteratorWrapper ==
    (kind \in {"ListIterator", "IteratorConcatenator"} /\ call.op = "__next__") =>
        LET items == ItemsInOrder
            before == Len(items) - Len(ItemsLeft) + 1
        IN  /\ ~call.raised
            /\ IterIsAtEnd(kind, call.pre) => (call.stop /\ iter = call.pre)
            /\ call.stop => (IterIsAtEnd(kind, iter) /\ ItemsLeft = <<>>)
            /\ ~call.stop =>
                    /\ call.result = items[before]
                    /\ ItemsLeft = SubSeq(items, before, Len(items))
                    /\ IF IterIsAtStart(kind, call.pre) THEN before = 1
                       ELSE call.result = IterCurrentItem(kind, call.pre).item + 1
            /\ (~IterIsAtEnd(kind, call.pre) /\ call.stop) =>
                    IF IterIsAtStart(kind, call.pre) THEN items = <<>>
                    ELSE IterCurrentItem(kind, call.pre).item = Len(items)

\* __next__ on a concatenator that is at its end, made over three items, has
\* raised StopIteration again.
C35_Witness ==
    /\ kind = "IteratorConcatenator"
    /\ call.op = "__next__"
    /\ IterIsAtEnd(kind, call.pre)
    /\ call.stop
    /\ iter = call.pre
    /\ Len(Flatten(input)) = 3

\* What a client can see of the buffer: index, size, the lowest buffered
\* index and the active reference tokens.
SameBuffer(p, s) ==
    /\ Index(s) = Index(p)
    /\ Size(s) = Size(p)
    /\ LowestIndexInBuffer(s) = LowestIndexInBuffer(p)
    /\ s.refs = p.refs

\* C36: on the character stream, LA(1) returns what the LA of
\* IteratorToIntStreamAdapter (new reference, seek, read, seek back, release
\* of the reference) returns for offset 1 from the same state; neither raises,
\* and both leave index, size, the buffered range and the active marks as they
\* were.
C36_OptimizedLA ==
    (variant = "char" /\ last.op = "LA" /\ last.arg = 1) =>
        LET generic == IntStreamLA(last.pre, 1, ScratchToken(last.pre))
        IN  /\ ~last.raised
            /\ ~generic.raised
            /\ last.result = generic.result
            /\ SameBuffer(last.pre, stream)
            /\ SameBuffer(last.pre, generic.s)
            /\ stream.it = last.pre.it
            /\ generic.s.it = last.pre.it

\* LA(1) on the last buffered character, a mark held behind the cursor, has
\* returned that character.
C36_Witness ==
    /\ variant = "char"
    /\ last.op = "LA"
    /\ last.arg = 1
    /\ IsI(last.pre)
    /\ ~HasMoreBuffer(last.pre)
    /\ held # {}
    /\ LowestIndexInBuffer(last.pre) < Index(last.pre)
    /\ last.result = Ord(StreamItem(Index(last.pre)))

\* C37: buffered items are discarded only inside release(): a consume,
\* move_to_next, move_to_end, seek, LA, LT, get, getText or mark call, whether
\* it raises or not, leaves the lowest buffered index where it was; and as
\* long as release() has not been called the lowest buffered index is 0 and
\* seek(j) succeeds for every 0 <= j < size.
C37_DiscardOnlyInRelease ==
    /\ last.op \in {"consume", "move_to_next", "move_to_end", "seek", "LA", "LT", "get",
                     "getText", "mark"} =>
            /\ LowestIndexInBuffer(stream) = LowestIndexInBuffer(last.pre)
            /\ \A j \in 0 .. (Size(last.pre) - 1) :
                    SeekFails(stream, j) <=> SeekFails(last.pre, j)
    /\ ~release_called =>
            /\ LowestIndexInBuffer(stream) = 0
            /\ \A j \in 0 .. (Size(stream) - 1) : ~SeekFails(stream, j)

\* With no release() call made, the whole of a source of three items has
\* been pulled and the cursor is at the end: every item is still buffered.
C37_Witness ==
    /\ ~release_called
    /\ last.op \in {"consume", "move_to_end", "seek"}
    /\ IsI(last.pre)
    /\ IsE(stream)
    /\ Size(stream) = 3
    /\ Len(stream.items) = 3
    /\ ~SeekFails(stream, 0)

\* C38: state EE is absorbing: a call made in EE leaves the stream in EE with
\* index = size as before (seek(i) raises exactly when i < size, consume
\* raises, mark returns 0, release and move_to_end return); and a stream at
\* its end is in state I after a call only when the call is a seek to an
\* index that is still buffered.
C38_EmptyEndAbsorbing ==
    /\ (last.op # "none" /\ IsEE(last.pre)) =>
            /\ IsEE(stream)
            /\ Size(stream) = Size(last.pre)
            /\ Index(stream) = Size(stream)
            /\ stream.it = last.pre.it
            /\ last.op = "seek" => (last.raised <=> last.arg < Size(last.pre))
            /\ last.op = "consume" => last.raised
            /\ last.op = "mark" => (last.result = 0 /\ stream.refs = last.pre.refs)
            /\ last.op \in {"release", "move_to_end", "mark"} => ~last.raised
    /\ (last.op # "none" /\ IsAtEnd(last.pre) /\ IsI(stream)) =>
            /\ last.op = "seek"
            /\ ~last.raised
            /\ IsE(last.pre)
            /\ IndexIsInBuffer(last.pre, last.arg)
            /\ Index(stream) = last.arg

\* seek to the index of an item of a stream of three items, all of them
\* passed and discarded, has raised.
C38_Witness ==
    /\ last.op = "seek"
    /\ IsEE(last.pre)
    /\ Size(last.pre) = 3
    /\ last.arg = 1
    /\ last.raised
    /\ IsEE(stream)

\* C39, as claimed: a getText(start, stop) call that raises leaves the index
\* and the state (I, E or EE) of the character stream as they were before
\* the call, and no reference of its own active.
C39_FailedGetText ==
    (last.op = "getText" /\ last.raised) =>
        /\ Index(stream) = Index(last.pre)
        /\ IsI(stream) <=> IsI(last.pre)
        /\ IsE(stream) <=> IsE(last.pre)
        /\ IsEE(stream) <=> IsEE(last.pre)
        /\ stream.refs = last.pre.refs

\* ===================================================== the construction
\* The stages from their construction on: make() is a call of its own, made
\* on a stage that holds nothing but its source, and the other calls follow.

\* The adapter as __init__ leaves it, its source in state S (0) or on its
\* first item (1), and the iterator classes whose make() looks at the source.
NewCall == [op |-> "new", arg |-> 0, raised |-> FALSE, result |-> 0, pre |-> FifoMake]

NewIterCall == [op |-> "new", raised |-> FALSE, pre |-> <<>>]

MadeKinds == {"IteratorConcatenator", "TokenToCharIterator"}

\* What make() is handed: a ListIterator in state S, or moved once.
MakeSources(k, in) ==
    IF k = "IteratorConcatenator"
    THEN Moved(ListMake([i \in 1 .. Len(in) |-> ListMake(in[i])]))
    ELSE Moved(ListMake(in))

MakeInit ==
    \/ /\ variant \in Variants
       /\ source \in Sources(variant)
       /\ \E it0 \in {0, 1} : stream = [FifoMake EXCEPT !.it = it0]
       /\ held = {}
       /\ released = FALSE
       /\ release_called = FALSE
       /\ last = NewCall
       /\ IterOff
       /\ FilterOff
       /\ TextOff
    \/ /\ kind \in MadeKinds
       /\ input \in IterInputs(kind)
       /\ iter \in MakeSources(kind, input)
       /\ call = NewIterCall
       /\ StreamOff
       /\ FilterOff
       /\ TextOff

\* IteratorToCharStreamAdapter.make, IteratorToTokenStreamAdapter.make
MakeAct ==
    /\ last.op = "new"
    /\ stream' = Setup(stream.it)
    /\ last' = Call("make", stream.it, FALSE, 0)
    /\ UNCHANGED <<iterVars, filterVars, textVars, variant, source, held, released, release_called>>

\* IteratorConcatenator.make, TokenToCharIterator.make
IterMakeAct ==
    /\ call.op = "new"
    /\ iter' = IF kind = "IteratorConcatenator" THEN ConcatSetup(iter) ELSE TokenToCharSetup(iter)
    /\ call' = [op |-> "make", raised |-> FALSE, pre |-> iter]
    /\ UNCHANGED <<streamVars, filterVars, textVars, kind, input>>

\* The calls of the component that was made: a stream adapter or an iterator.
MakeNext ==
    \/ variant # "none" /\ MakeAct
    \/ variant # "none" /\ ConsumeAct
    \/ variant # "none" /\ MoveToNextAct
    \/ variant # "none" /\ MoveToEndAct
    \/ variant # "none" /\ SeekAct
    \/ variant # "none" /\ MarkAct
    \/ variant # "none" /\ ReleaseAct
    \/ variant # "none" /\ LAAct
    \/ variant # "none" /\ RoundTripAct
    \/ variant # "none" /\ GetTextAct
    \/ variant # "none" /\ GetAct
    \/ variant # "none" /\ LTAct
    \/ variant # "none" /\ ReturnAct
    \/ kind # "none" /\ IterMakeAct
    \/ kind # "none" /\ IterMoveToNextAct
    \/ kind # "none" /\ IterMoveToEndAct
    \/ kind # "none" /\ IterPythonNextAct
    \/ kind # "none" /\ IterReturnAct

MakeSpec == MakeInit /\ [][MakeNext]_vars

\* The calls of a stream adapter that may pull its source.
Pulling == {"consume", "move_to_next", "move_to_end", "seek", "LA", "LT", "get", "getText",
            "roundtrip"}

\* C40, as claimed: make() does not call move_to_next on the source of the
\* stage (a stream adapter, an IteratorConcatenator or a TokenToCharIterator
\* over a source in state S), and the source of a stream adapter is moved
\* only within an advance, consume, seek or lookahead call.
C40_Original ==
    /\ variant # "none" =>
            /\ last.op = "make" => stream.it = last.pre.it
            /\ (last.op \notin {"none", "new"} /\ stream.it # last.pre.it) =>
                    last.op \in {"consume", "move_to_next", "move_to_end", "seek", "LA", "LT",
                                 "get", "roundtrip"}
    /\ (kind # "none" /\ call.op = "make" /\ ListIsAtStart(call.pre)) =>
            iter.source = call.pre

\* C40, amended: make() of a stream adapter over a source in state S calls
\* move_to_next on the source exactly once, to buffer the first item, and
\* over a source that has a current item not at all; make() of an
\* IteratorConcatenator or of a TokenToCharIterator over a source in state S
\* leaves the source in state S; and after make() the source of a stream
\* adapter is moved only within a consume, move_to_next, move_to_end, seek,
\* LA, LT, get or getText call, never within mark or release.
C40_LazyPull ==
    /\ variant # "none" =>
            /\ last.op = "make" =>
                    stream.it = (IF last.pre.it = 0 THEN 1 ELSE last.pre.it)
            /\ (last.op \notin {"none", "new", "make"} /\ stream.it # last.pre.it) =>
                    last.op \in Pulling
            /\ last.op \in {"mark", "release"} => stream.it = last.pre.it
    /\ (kind # "none" /\ call.op = "make" /\ ListIsAtStart(call.pre)) =>
            /\ iter.source = call.pre
            /\ IterIsAtStart(kind, iter)

\* make() of the character stream adapter over a source of three items in
\* state S has moved the source to its first item and buffered it.
C40_Witness ==
    /\ variant = "char"
    /\ last.op = "make"
    /\ last.pre.it = 0
    /\ stream.it = 1
    /\ Len(source) = 3
    /\ stream.items = <<source[1]>>

\* ============================================== the two pipeline assemblies
\* Factory.make_target_iterator_for_file drains a stage into a string and
\* hands the string to the next grammar; the streaming assembly hands the
\* grammar a stream adapter over the stage itself. The grammars are outside
\* the pipeline: a grammar reads its input from the front, looking at the
\* next item and consuming it, until it sees EOF.

\* Mutant: the loop starts without the first move_to_next.
RECURSIVE DrainFromCurrent(_, _)
DrainFromCurrent(s, strbuff) ==
    IF ItHasCurrentItem(s)
    THEN DrainFromCurrent(ItMoveToNext(s), Append(strbuff, ItCurrentItem(s)))
    ELSE strbuff

\* The buffered assembly's loop: move a stage in state S to its first item,
\* then write the current item and move on while there is one.
RECURSIVE Drain(_, _)
Drain(s, strbuff) ==
    IF ItIsAtStart(s) THEN Drain(ItMoveToNext(s), strbuff)
    ELSE IF ItHasCurrentItem(s)
    THEN Drain(ItMoveToNext(s), Append(strbuff, ItCurrentItem(s)))
    ELSE strbuff

\* InputStream(strbuff.getvalue()): the next character at a position of the
\* string, EOF at its end.
InputStreamLA(data, index) ==
    IF index < Len(data) THEN Ord(data[index + 1]) ELSE EOF

\* What a grammar reads from the string, from a position on.
RECURSIVE InputStreamRead(_, _, _)
InputStreamRead(data, index, seen) ==
    LET c == InputStreamLA(data, index)
    IN  IF c = EOF THEN Append(seen, c)
        ELSE InputStreamRead(data, index + 1, Append(seen, c))

\* CommonTokenStream(makefile_rule_lexer): the tokens of the lexer up to its
\* EOF token, which stays the next token at the end.
RECURSIVE CommonTokenStreamFetch(_, _)
CommonTokenStreamFetch(n, tokens) ==
    LET t == source[n]
    IN  IF t.type = TokenEOF THEN Append(tokens, t)
        ELSE CommonTokenStreamFetch(n + 1, Append(tokens, t))

CommonTokenStreamLT(tokens, index) ==
    IF index < Len(tokens) THEN tokens[index + 1] ELSE tokens[Len(tokens)]

RECURSIVE CommonTokenStreamRead(_, _, _)
CommonTokenStreamRead(tokens, index, seen) ==
    LET t == CommonTokenStreamLT(tokens, index)
    IN  IF t.type = TokenEOF THEN Append(seen, t)
        ELSE CommonTokenStreamRead(tokens, index + 1, Append(seen, t))

\* What a grammar reads from a character stream adapter, from its cursor on;
\* a call that raises ends the reading short of EOF.
RECURSIVE CharStreamRead(_, _)
CharStreamRead(s, seen) ==
    LET r == LA(s, 1, ScratchToken(s))
    IN  IF r.raised THEN seen
        ELSE IF r.result = EOF THEN Append(seen, r.result)
        ELSE LET c == Consume(r.s)
             IN  IF c.raised THEN seen
                 ELSE CharStreamRead(c.s, Append(seen, r.result))

\* What a grammar reads from a token stream adapter, from its cursor on.
RECURSIVE TokenStreamRead(_, _)
TokenStreamRead(s, seen) ==
    LET r == LT(s, 1, ScratchToken(s))
    IN  IF r.raised THEN seen
        ELSE IF r.result.type = TokenEOF THEN Append(seen, r.result)
        ELSE LET c == Consume(r.s)
             IN  IF c.raised THEN seen
                 ELSE TokenStreamRead(c.s, Append(seen, r.result))

\* The stage as the assemblies hand it on: an iterator in state S.
StageAtStart == [it |-> 0]

====
